---- MODULE Spec2Model ----
(***************************************************************************)
(* Model of the GCDataUtils class (gc-data-utils): the connection          *)
(* lifecycle state machine with its cached connect/close promises and its  *)
(* synchronous 'state-change' notifications, and the data-fetch operations *)
(* that are gated on it.                                                   *)
(*                                                                         *)
(* JavaScript runs one job at a time.  A public method runs without        *)
(* interruption up to its first await, with one exception: #changeState    *)
(* emits 'state-change' synchronously, so the listeners registered through *)
(* on(...) run in the middle of the method that changes the state.  The    *)
(* model keeps the methods that are suspended at such an emit on `stack`;  *)
(* while the stack is not empty only listener code and the resumption of   *)
(* the top frame can run.                                                  *)
(***************************************************************************)
EXTENDS Integers, Sequences, FiniteSets, TLC

VARIABLES
    clientState,     \* #clientState
    connectPromise,  \* #connectPromise: a promise id, or NoPromise
    closePromise,    \* #closePromise: a promise id, or NoPromise
    promises,        \* the promise objects created so far, by id
    api,             \* the collaborator's connect()/close() calls, with their outcome
    apiCalls,        \* number of collaborator calls issued, per kind
    stack,           \* methods suspended inside #changeState's emit
    listening,       \* a 'state-change' listener is registered
    events,          \* the notifications emitted since construction
    lastCall,        \* the public connect()/close() call that completed in the last step
    ops,             \* the data-fetch operations, by slot
    clock            \* Date.now() of the program, and the time of the collaborator's server

vars == <<clientState, connectPromise, closePromise, promises, api, apiCalls,
          stack, listening, events, lastCall, ops, clock>>

-----------------------------------------------------------------------------
(* The lifecycle states and the values of the promise fields.              *)

CREATED == "CREATED"
CONNECTING == "CONNECTING"
CONNECTED == "CONNECTED"
CLOSING == "CLOSING"
CLOSED == "CLOSED"
FAILED == "FAILED"

STATES == {CREATED, CONNECTING, CONNECTED, CLOSING, CLOSED, FAILED}

\* null, the initial value of #connectPromise and #closePromise
NoPromise == 0

\* The error kinds the collaborator's connect()/close() can reject with.
ApiErrorKinds == {"ID_NOT_FOUND", "AUTHENTICATION_FAILURE", "UNEXPECTED_RESPONSE_ERROR",
                  "UNEXPECTED_STATUS_CODE", "INTERNAL_ERROR", "OTHER"}

ApiOutcomes == {"ok"} \cup ApiErrorKinds

-----------------------------------------------------------------------------
(* Guards and mappings of connect(), #connect(), close() and #close().     *)

\* connect(): "if (this.#clientState === GCDataUtils.#CONNECTING) return this.#connectPromise"
ConnectReturnsCached(s) == s = CONNECTING

\* Mutants of ConnectAvailable: connect() also accepted after a close, after a failure.
ConnectAvailableAfterClose(s) == s \in {CREATED, CLOSED}
ConnectAvailableAfterFailure(s) == s \in {CREATED, FAILED}

\* connect(): "if (this.#clientState !== GCDataUtils.#CREATED) throw CONNECT_UNAVAILABLE"
ConnectAvailable(s) == s = CREATED

\* close(): "if (state === CLOSING || state === CLOSED) return this.#closePromise"
CloseReturnsCached(s) == s \in {CLOSING, CLOSED}

\* Mutant of CloseAvailable: close() also accepted while connecting.
CloseAvailableWhileConnecting(s) == s \in {CONNECTED, CONNECTING}

\* close(): "if (this.#clientState !== GCDataUtils.#CONNECTED) throw CLOSE_UNAVAILABLE"
CloseAvailable(s) == s = CONNECTED

\* Mutant of MapConnectError: the chain of #close(), which has no branch for
\* an unknown client id or a failed authentication.
MapConnectErrorLikeClose(kind) ==
    CASE kind = "UNEXPECTED_RESPONSE_ERROR" -> "UNEXPECTED_RESPONSE_ERROR"
      [] kind = "UNEXPECTED_STATUS_CODE" -> "UNEXPECTED_STATUS_CODE"
      [] OTHER -> "INTERNAL_ERROR"

\* #connect(): the catch block's instanceof chain
MapConnectError(kind) ==
    CASE kind = "ID_NOT_FOUND" -> "CLIENT_ID_NOT_FOUND"
      [] kind = "AUTHENTICATION_FAILURE" -> "AUTHENTICATION_FAILURE"
      [] kind = "UNEXPECTED_RESPONSE_ERROR" -> "UNEXPECTED_RESPONSE_ERROR"
      [] kind = "UNEXPECTED_STATUS_CODE" -> "UNEXPECTED_STATUS_CODE"
      [] kind = "INTERNAL_ERROR" -> "INTERNAL_ERROR"
      [] OTHER -> "INTERNAL_ERROR"

\* #close(): the catch block's instanceof chain (no id-not-found or authentication branch)
MapCloseError(kind) ==
    CASE kind = "UNEXPECTED_RESPONSE_ERROR" -> "UNEXPECTED_RESPONSE_ERROR"
      [] kind = "UNEXPECTED_STATUS_CODE" -> "UNEXPECTED_STATUS_CODE"
      [] kind = "INTERNAL_ERROR" -> "INTERNAL_ERROR"
      [] OTHER -> "INTERNAL_ERROR"

\* Mutant of ConnectSettledState: a failed attempt leaves the client ready to retry.
ConnectSettledStateRetry(outcome) == IF outcome = "ok" THEN CONNECTED ELSE CREATED

\* The state #connect() moves to when the collaborator's connect() settles.
ConnectSettledState(outcome) == IF outcome = "ok" THEN CONNECTED ELSE FAILED

\* Mutant of CloseSettledState: the catch block does not change the state to FAILED.
CloseSettledStateNoFailure(outcome) == IF outcome = "ok" THEN CLOSED ELSE CLOSING

\* The state #close() moves to when the collaborator's close() settles.
CloseSettledState(outcome) == IF outcome = "ok" THEN CLOSED ELSE FAILED

-----------------------------------------------------------------------------
(* Helpers for the call stack, the promises and the record of the public   *)
(* call that completed in the last step.                                   *)

Top == stack[Len(stack)]
Pop == SubSeq(stack, 1, Len(stack) - 1)

\* Code outside the class runs as a job of its own, or inside a listener.
CallerCanRun == stack = <<>> \/ listening
By == IF stack = <<>> THEN "caller" ELSE "listener"

NewPromise == Len(promises) + 1
Pending == [status |-> "pending", value |-> "none"]
Settle(p, st, v) == [promises EXCEPT ![p] = [status |-> st, value |-> v]]

\* A collaborator call and its outcome: "pending" until it settles.
ApiCall(call, p) == [call |-> call, promise |-> p, outcome |-> "pending"]
Settled(c, outcome) == (api \ {c}) \cup {[c EXCEPT !.outcome = outcome]}

\* No public call completed in the last step.
NoCall ==
    [fn |-> "none", by |-> "none", pre |-> "none", outcome |-> "none", ret |-> NoPromise,
     err |-> "none"]

\* fn() was called by `by` in state `pre` and returned p ...
Returned(fn, by, pre, p) ==
    [fn |-> fn, by |-> by, pre |-> pre, outcome |-> "returned", ret |-> p, err |-> "none"]

\* ... or threw e.
Thrown(fn, by, pre, e) ==
    [fn |-> fn, by |-> by, pre |-> pre, outcome |-> "threw", ret |-> NoPromise, err |-> e]

\* A method suspended inside an emit: who called it in which state, and for
\* #connect()/#close() its promise and the outcome of the awaited call.
Frame(fn, by, pre, p, outcome) ==
    [fn |-> fn, by |-> by, pre |-> pre, promise |-> p, outcome |-> outcome]

\* A 'state-change' notification; heard: the registered listener was invoked
\* with it (emit() calls the listeners registered at that moment).
Notification(previousState, newState, heard) ==
    [previousState |-> previousState, newState |-> newState, heard |-> heard]

\* Mutant of changeState: the previous state is read after the assignment.
changeStateSavingThePreviousStateLate(newState) ==
    /\ newState \in STATES
    /\ clientState' = newState
    /\ events' = Append(events, Notification(newState, newState, listening))

\* #changeState(newState) followed by #emit("state-change", ...): the state is
\* assigned first, then the notification is emitted synchronously.
changeState(newState) ==
    /\ newState \in STATES
    /\ clientState' = newState
    /\ events' = Append(events, Notification(clientState, newState, listening))

-----------------------------------------------------------------------------
(* on("state-change", listener)                                            *)

on ==
    /\ CallerCanRun
    /\ ~listening
    /\ listening' = TRUE
    /\ lastCall' = NoCall
    /\ UNCHANGED <<clientState, connectPromise, closePromise, promises, api, apiCalls,
                   stack, events, ops, clock>>

-----------------------------------------------------------------------------
(* connect() and #connect()                                                *)

\* connect() up to the end of #changeState(CONNECTING): the listeners run next.
connect ==
    /\ CallerCanRun
    /\ IF ConnectReturnsCached(clientState)
         THEN /\ lastCall' = Returned("connect", By, clientState, connectPromise)
              /\ UNCHANGED <<clientState, events, stack>>
         ELSE IF ~ConnectAvailable(clientState)
         THEN /\ lastCall' = Thrown("connect", By, clientState, "CONNECT_UNAVAILABLE")
              /\ UNCHANGED <<clientState, events, stack>>
         ELSE /\ changeState(CONNECTING)
              /\ stack' = Append(stack, Frame("connect", By, clientState, NoPromise, "none"))
              /\ lastCall' = NoCall
    /\ UNCHANGED <<connectPromise, closePromise, promises, api, apiCalls, listening, ops, clock>>

\* The rest of connect(): #connect() runs up to its await (the collaborator's
\* connect() is invoked), its promise is cached and returned.
connectReturn ==
    /\ stack # <<>>
    /\ Top.fn = "connect"
    /\ promises' = Append(promises, Pending)
    /\ apiCalls' = [apiCalls EXCEPT !.connect = @ + 1]
    /\ api' = api \cup {ApiCall("connect", NewPromise)}
    /\ connectPromise' = NewPromise
    /\ lastCall' = Returned("connect", Top.by, Top.pre, NewPromise)
    /\ stack' = Pop
    /\ UNCHANGED <<clientState, closePromise, listening, events, ops, clock>>

\* The collaborator's connect() settles: #connect() resumes after its await, up
\* to the end of #changeState(CONNECTED) or #changeState(FAILED).
connectSettled(outcome) ==
    /\ stack = <<>>
    /\ \E c \in api :
        /\ c.call = "connect"
        /\ c.outcome = "pending"
        /\ api' = Settled(c, outcome)
        /\ changeState(ConnectSettledState(outcome))
        /\ stack' = Append(stack, Frame("#connect", "loop", clientState, c.promise, outcome))
    /\ lastCall' = NoCall
    /\ UNCHANGED <<connectPromise, closePromise, promises, apiCalls, listening, ops, clock>>

\* The rest of #connect(): throw the mapped error, or clear the cached promise
\* and return true.
connectFinish ==
    /\ stack # <<>>
    /\ Top.fn = "#connect"
    /\ IF Top.outcome = "ok"
         THEN /\ connectPromise' = NoPromise
              /\ promises' = Settle(Top.promise, "fulfilled", "true")
         ELSE /\ promises' = Settle(Top.promise, "rejected", MapConnectError(Top.outcome))
              /\ UNCHANGED connectPromise
    /\ stack' = Pop
    /\ lastCall' = NoCall
    /\ UNCHANGED <<clientState, closePromise, api, apiCalls, listening, events, ops, clock>>

-----------------------------------------------------------------------------
(* close() and #close()                                                    *)

\* close() up to the end of #changeState(CLOSING).
close ==
    /\ CallerCanRun
    /\ IF CloseReturnsCached(clientState)
         THEN /\ lastCall' = Returned("close", By, clientState, closePromise)
              /\ UNCHANGED <<clientState, events, stack>>
         ELSE IF ~CloseAvailable(clientState)
         THEN /\ lastCall' = Thrown("close", By, clientState, "CLOSE_UNAVAILABLE")
              /\ UNCHANGED <<clientState, events, stack>>
         ELSE /\ changeState(CLOSING)
              /\ stack' = Append(stack, Frame("close", By, clientState, NoPromise, "none"))
              /\ lastCall' = NoCall
    /\ UNCHANGED <<connectPromise, closePromise, promises, api, apiCalls, listening, ops, clock>>

\* The rest of close(): #close() runs up to its await (the collaborator's
\* close(false) is invoked), its promise is cached and returned.
closeReturn ==
    /\ stack # <<>>
    /\ Top.fn = "close"
    /\ promises' = Append(promises, Pending)
    /\ apiCalls' = [apiCalls EXCEPT !.close = @ + 1]
    /\ api' = api \cup {ApiCall("close", NewPromise)}
    /\ closePromise' = NewPromise
    /\ lastCall' = Returned("close", Top.by, Top.pre, NewPromise)
    /\ stack' = Pop
    /\ UNCHANGED <<clientState, connectPromise, listening, events, ops, clock>>

\* The collaborator's close() settles: #close() resumes after its await, up to
\* the end of #changeState(CLOSED) or #changeState(FAILED).
closeSettled(outcome) ==
    /\ stack = <<>>
    /\ \E c \in api :
        /\ c.call = "close"
        /\ c.outcome = "pending"
        /\ api' = Settled(c, outcome)
        /\ changeState(CloseSettledState(outcome))
        /\ stack' = Append(stack, Frame("#close", "loop", clientState, c.promise, outcome))
    /\ lastCall' = NoCall
    /\ UNCHANGED <<connectPromise, closePromise, promises, apiCalls, listening, ops, clock>>

\* Mutant of closeFinish: removeAllListeners() is not called.
closeFinishKeepingTheListeners ==
    /\ stack # <<>>
    /\ Top.fn = "#close"
    /\ IF Top.outcome = "ok"
         THEN promises' = Settle(Top.promise, "fulfilled", "true")
         ELSE promises' = Settle(Top.promise, "rejected", MapCloseError(Top.outcome))
    /\ stack' = Pop
    /\ lastCall' = NoCall
    /\ UNCHANGED <<clientState, connectPromise, closePromise, api, apiCalls, listening, events,
                   ops, clock>>

\* The rest of #close(): throw the mapped error, or remove all listeners and
\* return true.
closeFinish ==
    /\ stack # <<>>
    /\ Top.fn = "#close"
    /\ IF Top.outcome = "ok"
         THEN /\ listening' = FALSE
              /\ promises' = Settle(Top.promise, "fulfilled", "true")
         ELSE /\ promises' = Settle(Top.promise, "rejected", MapCloseError(Top.outcome))
              /\ UNCHANGED listening
    /\ stack' = Pop
    /\ lastCall' = NoCall
    /\ UNCHANGED <<clientState, connectPromise, closePromise, api, apiCalls, events, ops, clock>>

-----------------------------------------------------------------------------
(* Data-fetch operations: bounds, constants and inputs.                    *)

\* The scope of the data-fetch operations when they run next to the whole
\* lifecycle (Spec) ...
GatePages == 1        \* a paginated sequence has at most this many pages
GatePolls == 0        \* at most this many status polls of one job are answered "not yet"
GateHalfDays == 0     \* export timestamps are 0 .. GateHalfDays half days
GateAuditSteps == 1   \* audit-log timestamps are 0 .. GateAuditSteps steps of 15 days
GateClockTicks == 0   \* clock readings and server start dates are 0 .. GateClockTicks ticks

\* ... and when they run on a connected client (DataSpec).
MaxPages == 2
MaxPolls == 2
MaxHalfDays == 3
MaxAuditSteps == 3
ClockTicks == 2

MaxDaysPerJob == 1    \* the daysPerJob option ranges over 0 .. MaxDaysPerJob

\* ... and when a job is polled until the backoff is clamped (PollSpec) ...
BackoffPolls == 6
PollPages == 2

\* ... and when a synthetic backend serves a bounded pagination (PagedSpec):
\* it holds 0 .. MaxItems items, the page size is 1 .. MaxPageSize ...
MaxItems == 5
MaxPageSize == 3

\* ... and when time passes (ThrottleSpec): the clocks advance ThrottleTicks
\* times by half the interval between two audit-log queries, the server's clock
\* is up to ThrottleSkewTicks such steps behind or ahead of the program's, and
\* audit-log timestamps are 0 .. ThrottleAuditSteps steps of 15 days.
ThrottleTicks == 3
ThrottleSkewTicks == 1
ThrottleAuditSteps == 3

\* ... and when a date range is as long as three chunks (ChunkSpec).
ChunkPages == 2
ChunkPolls == 1
ChunkHalfDays == 5
ChunkAuditSteps == 5
ChunkClockTicks == 0

DATALAKE_EXPONENTIAL_BACKOFF_BASE_TIME_IN_SECONDS == 2
DATALAKE_EXPONENTIAL_BACKOFF_MAX_TIME_IN_SECONDS == 60
AUDIT_LOGS_EXPONENTIAL_BACKOFF_BASE_TIME_IN_SECONDS == 2
AUDIT_LOGS_EXPONENTIAL_BACKOFF_MAX_TIME_IN_SECONDS == 60
AUDIT_LOG_QUERY_MAX_DAYS == 30
AUDIT_LOG_QUERY_INTERVAL_IN_MS == 6000

\* "24 * 60 * 60 * 1000": a day, in the unit of the interval timestamps.  The
\* model counts the interval timestamps in seconds instead of milliseconds (the
\* common factor 1000 is left out) to stay within TLC's 32-bit integers.
DayInMs == 24 * 60 * 60

\* null, the initial value of lastQueryTimestamp
NoTimestamp == -1

\* "new Date(startDate)" of a string that is no date: its getTime() is NaN
InvalidDate == -2

Min(a, b) == IF a < b THEN a ELSE b

\* The values the caller's arguments, the collaborator's answers and the clock
\* range over.
\* Date strings of the collaborator are dates, unless the scope has the
\* collaborator answer with a string that is no date as well (`garbled`).
Scope(pages, polls, halfDays, auditSteps, ticks) ==
    [pages |-> pages, polls |-> polls,
     exportTimes |-> {k * (DayInMs \div 2) : k \in 0..halfDays},
     auditTimes |-> {k * 15 * DayInMs : k \in 0..auditSteps},
     clock |-> {k * AUDIT_LOG_QUERY_INTERVAL_IN_MS : k \in 0..ticks},
     garbled |-> {}]

GateScope == Scope(GatePages, GatePolls, GateHalfDays, GateAuditSteps, GateClockTicks)
DataScope == Scope(MaxPages, MaxPolls, MaxHalfDays, MaxAuditSteps, ClockTicks)
ChunkScope == Scope(ChunkPages, ChunkPolls, ChunkHalfDays, ChunkAuditSteps, ChunkClockTicks)
PollScope == Scope(PollPages, BackoffPolls, MaxHalfDays, MaxAuditSteps, GateClockTicks)

OpIds == {1}

BoundedOps == {"getAllUsers", "getAllGroups", "getAllQueues"}
AvailabilityOps == {"getConversationsDatalakeAvailabilityTimestamp",
                    "getUsersDatalakeAvailabilityTimestamp"}
ExportOps == {"getConversationsDetailsFromDatalake", "getUsersDetailsFromDatalake"}

OpNames == BoundedOps \cup AvailabilityOps \cup ExportOps
             \cup {"getQueueMembers", "getOldestQueueCreationTimestamp", "getEventsFromAuditLog"}

Kind(op) ==
    CASE op \in BoundedOps -> "bounded"
      [] op = "getQueueMembers" -> "members"
      [] op \in AvailabilityOps -> "availability"
      [] op = "getOldestQueueCreationTimestamp" -> "oldest"
      [] op \in ExportOps -> "export"
      [] op = "getEventsFromAuditLog" -> "audit"

\* Errors of the data-fetch operations: a class name and what it describes.
Err(name) == [name |-> name, detail |-> <<"none", "none">>]
NoError == Err("none")
Incomplete(field, what) == [name |-> "INCOMPLETE_RESPONSE", detail |-> <<field, what>>]
\* An error thrown by the collaborator itself passes through unchanged.
CollaboratorError == Err("COLLABORATOR_ERROR")

\* The first error of a sequence of check results, in order.
FirstError(es) ==
    IF \E i \in DOMAIN es : es[i] # NoError
      THEN es[CHOOSE i \in DOMAIN es : es[i] # NoError /\ \A j \in 1..(i - 1) : es[j] = NoError]
      ELSE NoError

-----------------------------------------------------------------------------
(* Arguments and their validation.                                         *)

DefaultArgs ==
    [pageSize |-> "valid", queueId |-> "valid", startType |-> "Date", endType |-> "Date",
     start |-> 0, end |-> 0, daysPerJobType |-> "integer", daysPerJob |-> 1,
     serviceName |-> "string", entityType |-> "undefined"]

PageSizes == {"valid", "notInteger", "lessThanOne"}

\* A timestamp argument: a Date among `times`, or something that is no Date.
Timestamps(times) == {<<"Date", t>> : t \in times} \cup {<<"notDate", 0>>}

\* The daysPerJob option: an integer, or something that is no integer.
DaysPerJob == {<<"integer", d>> : d \in 0..MaxDaysPerJob} \cup {<<"notInteger", 0>>}

ArgsOf(op, scope) ==
    CASE Kind(op) \in {"bounded", "oldest"} ->
           {[DefaultArgs EXCEPT !.pageSize = p] : p \in PageSizes}
      [] Kind(op) = "members" ->
           {[DefaultArgs EXCEPT !.pageSize = p, !.queueId = q] :
               p \in PageSizes, q \in {"valid", "notString", "notUUID"}}
      [] Kind(op) = "availability" -> {DefaultArgs}
      [] Kind(op) = "export" ->
           {[DefaultArgs EXCEPT !.startType = t1[1], !.start = t1[2],
                                !.endType = t2[1], !.end = t2[2], !.pageSize = p,
                                !.daysPerJobType = d[1], !.daysPerJob = d[2]] :
               t1 \in Timestamps(scope.exportTimes), t2 \in Timestamps(scope.exportTimes),
               p \in PageSizes, d \in DaysPerJob}
      [] Kind(op) = "audit" ->
           {[DefaultArgs EXCEPT !.startType = t1[1], !.start = t1[2],
                                !.endType = t2[1], !.end = t2[2], !.pageSize = p,
                                !.serviceName = sn, !.entityType = en] :
               t1 \in Timestamps(scope.auditTimes), t2 \in Timestamps(scope.auditTimes),
               p \in PageSizes, sn \in {"string", "notString"},
               en \in {"undefined", "string", "notString"}}

\* Mutant of PageSizeError: only the bounds are checked.
PageSizeErrorWithoutTheTypeCheck(a) ==
    IF a.pageSize = "lessThanOne" THEN Err("PAGE_SIZE_OUT_OF_BOUNDS") ELSE NoError

PageSizeError(a) ==
    IF a.pageSize = "notInteger" THEN Err("PAGE_SIZE_TYPE_INVALID")
    ELSE IF a.pageSize = "lessThanOne" THEN Err("PAGE_SIZE_OUT_OF_BOUNDS")
    ELSE NoError

QueueIdError(a) ==
    IF a.queueId = "notString" THEN Err("QUEUE_ID_TYPE_INVALID")
    ELSE IF a.queueId = "notUUID" THEN Err("QUEUE_ID_INVALID_UUID")
    ELSE NoError

StartTimestampError(a) ==
    IF a.startType # "Date" THEN Err("START_TIMESTAMP_TYPE_INVALID") ELSE NoError

EndTimestampError(a) ==
    IF a.endType # "Date" THEN Err("END_TIMESTAMP_TYPE_INVALID") ELSE NoError

\* Mutant of IntervalError: an empty interval passes the check.
IntervalErrorOfAReversedInterval(a) ==
    IF a.start > a.end THEN Err("INTERVAL_MISMATCH") ELSE NoError

IntervalError(a) ==
    IF a.start >= a.end THEN Err("INTERVAL_MISMATCH") ELSE NoError

DaysPerJobError(a) ==
    IF a.daysPerJobType # "integer" THEN Err("DAYS_PER_JOB_TYPE_INVALID")
    ELSE IF a.daysPerJob < 1 THEN Err("DAYS_PER_JOB_OUT_OF_BOUNDS")
    ELSE NoError

ServiceNameError(a) ==
    IF a.serviceName # "string" THEN Err("SERVICE_NAME_TYPE_INVALID") ELSE NoError

EntityTypeError(a) ==
    IF a.entityType = "notString" THEN Err("ENTITY_TYPE_TYPE_INVALID") ELSE NoError

\* The argument checks of each operation, in the order of the code.
ValidateArgs(op, a) ==
    CASE Kind(op) \in {"bounded", "oldest"} -> FirstError(<<PageSizeError(a)>>)
      [] Kind(op) = "members" -> FirstError(<<QueueIdError(a), PageSizeError(a)>>)
      [] Kind(op) = "availability" -> NoError
      [] Kind(op) = "export" ->
           FirstError(<<StartTimestampError(a), EndTimestampError(a), IntervalError(a),
                        PageSizeError(a), DaysPerJobError(a)>>)
      [] Kind(op) = "audit" ->
           FirstError(<<StartTimestampError(a), EndTimestampError(a), IntervalError(a),
                        ServiceNameError(a), EntityTypeError(a), PageSizeError(a)>>)

\* Mutant of NotConnected: a client that is still connecting passes the check.
NotConnectedNorConnecting(s) == s \notin {CONNECTED, CONNECTING}

\* "if (this.#clientState !== GCDataUtils.#CONNECTED) throw CLIENT_NOT_CONNECTED"
NotConnected(s) == s # CONNECTED

-----------------------------------------------------------------------------
(* Collaborator responses and their validation.                            *)

FieldClasses == {"missing", "badType", "ok"}

ExportStatuses == {"FULFILLED", "QUEUED", "PENDING", "FAILED", "CANCELLED", "EXPIRED"}
AuditStatuses == {"Succeeded", "Queued", "Running", "Failed", "Cancelled"}

\* The status strings an answer can carry: those of the API, and any other string.
StatusesOf(op) ==
    (IF Kind(op) = "export" THEN ExportStatuses ELSE AuditStatuses) \cup {"OTHER"}

CursorStrings == {"", "token"}

Field(name, required) == [name |-> name, required |-> required]

\* The fields each response is checked for, in the order of the code.
FieldsOf(op, call) ==
    CASE call = "list" /\ Kind(op) = "bounded" ->
           <<Field("entities", TRUE), Field("pageCount", TRUE)>>
      [] call = "list" /\ Kind(op) = "members" ->
           <<Field("entities", TRUE), Field("nextUri", FALSE)>>
      [] call = "list" /\ Kind(op) = "oldest" ->
           <<Field("entities", TRUE), Field("pageCount", TRUE), Field("dateCreated", TRUE)>>
      [] call = "availability" -> <<Field("dataAvailabilityDate", TRUE)>>
      [] call = "submit" /\ Kind(op) = "export" -> <<Field("jobId", TRUE)>>
      [] call = "submit" /\ Kind(op) = "audit" ->
           <<Field("id", TRUE), Field("state", TRUE), Field("startDate", TRUE)>>
      [] call = "status" -> <<Field("state", TRUE)>>
      [] call = "results" /\ op = "getConversationsDetailsFromDatalake" ->
           <<Field("conversations", TRUE), Field("cursor", FALSE)>>
      [] call = "results" /\ op = "getUsersDetailsFromDatalake" ->
           <<Field("userDetails", TRUE), Field("cursor", FALSE)>>
      [] call = "results" /\ Kind(op) = "audit" ->
           <<Field("entities", FALSE), Field("cursor", FALSE)>>
      [] OTHER -> <<>>

ClassOf(r, i) == IF i = 1 THEN r.f1 ELSE IF i = 2 THEN r.f2 ELSE r.f3

\* A check fails when a required field is missing or a present field has the wrong type.
Fails(r, fields, i) ==
    \/ ClassOf(r, i) = "badType"
    \/ ClassOf(r, i) = "missing" /\ fields[i].required

\* Mutant of ResponseError: the error describes the last failed check.
ResponseErrorOfTheLastFailedCheck(r, fields) ==
    IF r.threw THEN CollaboratorError
    ELSE IF ~r.body THEN Incomplete("body", "missing")
    ELSE IF \E i \in DOMAIN fields : Fails(r, fields, i)
      THEN LET i == CHOOSE i \in DOMAIN fields :
                       Fails(r, fields, i) /\ \A j \in (i + 1)..Len(fields) : ~Fails(r, fields, j)
           IN  Incomplete(fields[i].name, ClassOf(r, i))
      ELSE NoError

\* The error a response raises: the collaborator's own, or that of the first failed check.
ResponseError(r, fields) ==
    IF r.threw THEN CollaboratorError
    ELSE IF ~r.body THEN Incomplete("body", "missing")
    ELSE IF \E i \in DOMAIN fields : Fails(r, fields, i)
      THEN LET i == CHOOSE i \in DOMAIN fields :
                       Fails(r, fields, i) /\ \A j \in 1..(i - 1) : ~Fails(r, fields, j)
           IN  Incomplete(fields[i].name, ClassOf(r, i))
      ELSE NoError

Resp(t, b, c1, c2, c3) ==
    [threw |-> t, body |-> b, f1 |-> c1, f2 |-> c2, f3 |-> c3, n |-> 0, s |-> "none",
     len |-> 0]

\* The shapes a response with k inspected fields can have.
Shapes(k) ==
    {Resp(TRUE, TRUE, "ok", "ok", "ok"), Resp(FALSE, FALSE, "ok", "ok", "ok")}
      \cup {Resp(FALSE, TRUE, c1, c2, c3) :
              c1 \in (IF k >= 1 THEN FieldClasses ELSE {"ok"}),
              c2 \in (IF k >= 2 THEN FieldClasses ELSE {"ok"}),
              c3 \in (IF k >= 3 THEN FieldClasses ELSE {"ok"})}

\* The values a well-formed response can carry.
Payloads(o, r, scope) ==
    CASE o.call = "list" /\ Kind(o.op) \in {"bounded", "oldest"} ->
           {[r EXCEPT !.n = n] : n \in 0..scope.pages}
      [] o.call = "availability" ->
           {[r EXCEPT !.n = n] : n \in scope.exportTimes \cup scope.garbled}
      [] o.call = "submit" /\ Kind(o.op) = "audit" ->
           {[r EXCEPT !.n = n, !.s = st] :
               n \in scope.clock \cup scope.garbled, st \in StatusesOf(o.op)}
      [] o.call = "status" -> {[r EXCEPT !.s = st] : st \in StatusesOf(o.op)}
      [] o.call \in {"list", "results"} /\ r.f2 = "ok" ->
           {[r EXCEPT !.s = c] : c \in CursorStrings}
      [] OTHER -> {r}

\* Mutant of ExportPollStep: a status outside the vocabulary is polled again.
ExportPollStepRetryingTheUnknown(st) ==
    CASE st = "FULFILLED" -> "drain"
      [] st = "FAILED" -> "failed"
      [] st = "CANCELLED" -> "cancelled"
      [] st = "EXPIRED" -> "expired"
      [] OTHER -> "poll"

\* What a polled status string leads to, for an export job ...
ExportPollStep(st) ==
    CASE st = "FULFILLED" -> "drain"
      [] st \in {"QUEUED", "PENDING"} -> "poll"
      [] st = "FAILED" -> "failed"
      [] st = "CANCELLED" -> "cancelled"
      [] st = "EXPIRED" -> "expired"
      [] OTHER -> "internal"

\* Mutant of AuditPollStep: the results of a running query are fetched.
AuditPollStepDrainingWhileRunning(st) ==
    CASE st \in {"Succeeded", "Running"} -> "drain"
      [] st = "Queued" -> "poll"
      [] st = "Failed" -> "failed"
      [] st = "Cancelled" -> "cancelled"
      [] OTHER -> "internal"

\* ... and for an audit-log query.
AuditPollStep(st) ==
    CASE st = "Succeeded" -> "drain"
      [] st \in {"Queued", "Running"} -> "poll"
      [] st = "Failed" -> "failed"
      [] st = "Cancelled" -> "cancelled"
      [] OTHER -> "internal"

PollStep(op, st) == IF Kind(op) = "export" THEN ExportPollStep(st) ELSE AuditPollStep(st)

\* The bounds of the model: sequences of pages and of polls end.
WithinBounds(o, r, scope) ==
    /\ (o.call \in {"list", "results"} /\ Kind(o.op) \notin {"bounded", "oldest"}
          /\ r.f2 = "ok") => o.page < scope.pages
    /\ (o.call = "status" /\ PollStep(o.op, r.s) = "poll") => o.polls <= scope.polls

Responses(o, scope) ==
    LET fields == FieldsOf(o.op, o.call)
        all == UNION {IF ResponseError(r, fields) = NoError THEN Payloads(o, r, scope) ELSE {r} :
                        r \in Shapes(Len(fields))}
    IN  {r \in all : ResponseError(r, fields) = NoError => WithinBounds(o, r, scope)}

\* The cursor (or nextUri) of a response: undefined when the field is absent.
CursorOf(r) == IF r.f2 = "ok" THEN r.s ELSE "undefined"

-----------------------------------------------------------------------------
(* The steps of a data-fetch operation.  An operation runs from one        *)
(* suspension point to the next: an awaited collaborator call ("await"), an *)
(* awaited SimpleTimer ("timer") or a yield ("yield").                     *)

\* An operation that has not been called: its locals, and the record of how
\* it was called (in which state, with valid arguments or not), of the
\* collaborator call it is waiting for (issued in which state, its first or not)
\* and of what the collaborator has seen of it (the jobs or queries it accepted,
\* the deletion calls it received, the jobs whose processing and cleanup are
\* over, whether the deletion call that has just settled failed, the call it
\* received last, the intervals submitted to it), and of what its caller did
\* (the start, the end and the daysPerJob it asked for, whether it left the
\* sequence by return(); for a bounded pagination served by a synthetic backend
\* of N items in pages of P: N and P, and the batches and items received; for
\* the results of the present job or query: the cursor option of the request
\* issued last, and how many responses carried a cursor and how many batches
\* were yielded; the time the throttle timer is due; the start dates the server
\* reported for the last two audit-log queries it accepted).
IdleOp ==
    [op |-> "none", pc |-> "idle", call |-> "none", err |-> NoError,
     page |-> 0, pageCount |-> 0, cursor |-> "null",
     cur |-> 0, curEnd |-> 0, end |-> 0, span |-> 0, avail |-> NoTimestamp,
     backoff |-> 0, polls |-> 0, jobState |-> "null", pendErr |-> NoError,
     lastQuery |-> NoTimestamp, resN |-> 0, resS |-> "none", batch |-> 0,
     startedIn |-> "none", argsValid |-> TRUE, issuedIn |-> "none", first |-> FALSE,
     jobs |-> 0, deletes |-> 0, finished |-> 0, deleteThrew |-> FALSE, lastApi |-> "none",
     intervals |-> <<>>, asked |-> <<0, 0, 0>>, left |-> FALSE,
     backend |-> <<0, 0>>, tally |-> <<0, 0>>, sent |-> "none", drain |-> <<0, 0>>,
     due |-> 0, issuedAt |-> 0, starts |-> <<NoTimestamp, NoTimestamp>>]

\* What is left of an operation that has ended: its locals are gone.
Ended(o, pc) ==
    [IdleOp EXCEPT !.op = o.op, !.pc = pc, !.startedIn = o.startedIn,
                   !.argsValid = o.argsValid]

Await(o, call) == [o EXCEPT !.pc = "await", !.call = call]
Sleep(o, what) == [o EXCEPT !.pc = "timer", !.call = what]
Yield(o) == [o EXCEPT !.pc = "yield", !.call = "none"]
Return(o) == [Ended(o, "done") EXCEPT !.resN = o.resN]
Throw(o, e) == [Ended(o, "threw") EXCEPT !.err = e]

\* The completion a finally block resumes when the consumer has called return()
\* on the generator.
Returning == Err("return")

\* Mutant of Finally: the job is not deleted.
FinallyWithoutDeletion(o, e) ==
    IF e = Returning THEN Return(o)
    ELSE IF e # NoError THEN Throw(o, e)
    ELSE Await([o EXCEPT !.cur = o.curEnd, !.curEnd = Min(o.curEnd + o.span, o.end)],
               "submit")

\* The finally block of the export operations: the best-effort delete is awaited,
\* then the pending completion (an error, a return, or none) goes on.
Finally(o, e) == Await([o EXCEPT !.pendErr = e], "delete")

\* Mutant of Raise: an error inside the try block skips the finally block.
RaiseWithoutCleanup(o, e) == Throw(o, e)

\* Mutant of Raise: the audit-log loop cleans up like the exports.
RaiseAlwaysCleaningUp(o, e) == Finally(o, e)

\* Mutant of Raise: an error of an export job is dropped: the job is deleted and
\* the loop moves on to the next chunk.
RaiseMovingOn(o, e) == IF Kind(o.op) = "export" THEN Finally(o, NoError) ELSE Throw(o, e)

\* An error raised inside the try block of an export job; the audit-log loop has
\* no try block.
Raise(o, e) == IF Kind(o.op) = "export" THEN Finally(o, e) ELSE Throw(o, e)

BackoffBase(op) ==
    IF Kind(op) = "export" THEN DATALAKE_EXPONENTIAL_BACKOFF_BASE_TIME_IN_SECONDS
    ELSE AUDIT_LOGS_EXPONENTIAL_BACKOFF_BASE_TIME_IN_SECONDS

BackoffMax(op) ==
    IF Kind(op) = "export" THEN DATALAKE_EXPONENTIAL_BACKOFF_MAX_TIME_IN_SECONDS
    ELSE AUDIT_LOGS_EXPONENTIAL_BACKOFF_MAX_TIME_IN_SECONDS

\* Mutant of NextBackoff: the backoff is not clamped.
NextBackoffUnclamped(op, b) == b * BackoffBase(op)

\* "exponentialBackoffTimeInSeconds = Math.min(exponentialBackoffTimeInSeconds * BASE, MAX)"
NextBackoff(op, b) == Min(b * BackoffBase(op), BackoffMax(op))

\* The head of a polling iteration: grow the backoff and wait for it.
WaitBackoff(o) == Sleep([o EXCEPT !.backoff = NextBackoff(o.op, o.backoff)], "backoff")

\* "if (typeof cursor === "string") options.cursor = cursor": the cursor option
\* of a results request, "none" when the request carries no cursor.
CursorOption(cursor) == IF cursor \in CursorStrings THEN cursor ELSE "none"

\* A results request of a job or query.
Request(o) == Await([o EXCEPT !.sent = CursorOption(o.cursor)], "results")

\* The first results request of a job: the cursor starts as null.
Drain(o) == Request([o EXCEPT !.cursor = "null", !.page = 1])

\* Mutant of MoreResults: an empty cursor ends the sequence as an absent one does.
MoreResultsWhileTruthy(cursor) == cursor \notin {"undefined", ""}

\* "while (cursor !== undefined)", "while (nextUri !== undefined)"
MoreResults(cursor) == cursor # "undefined"

\* The class of the error of a job or query that ended in a failure state.
JobErrorName(op, step) ==
    CASE op = "getConversationsDetailsFromDatalake" /\ step = "failed" ->
           "CONVERSATIONS_DETAILS_JOB_FAILED"
      [] op = "getConversationsDetailsFromDatalake" /\ step = "cancelled" ->
           "CONVERSATIONS_DETAILS_JOB_CANCELLED"
      [] op = "getConversationsDetailsFromDatalake" /\ step = "expired" ->
           "CONVERSATIONS_DETAILS_JOB_EXPIRED"
      [] op = "getUsersDetailsFromDatalake" /\ step = "failed" ->
           "USERS_DETAILS_JOB_FAILED"
      [] op = "getUsersDetailsFromDatalake" /\ step = "cancelled" ->
           "USERS_DETAILS_JOB_CANCELLED"
      [] op = "getUsersDetailsFromDatalake" /\ step = "expired" ->
           "USERS_DETAILS_JOB_EXPIRED"
      [] op = "getEventsFromAuditLog" /\ step = "failed" -> "AUDIT_LOG_QUERY_FAILED"
      [] op = "getEventsFromAuditLog" /\ step = "cancelled" -> "AUDIT_LOG_QUERY_CANCELLED"
      [] OTHER -> "INTERNAL_ERROR"

\* "new errors.ERROR_..._JOB_FAILED(jobId, statusResults.body)": the error carries
\* the id of the job and the status body it was classified by.
JobError(op, step, st) == [name |-> JobErrorName(op, step), detail |-> <<"jobStatus", st>>]

\* Mutant of NextQueryWaitTime: before its first query a call waits as if a
\* query had started at time 0.
NextQueryWaitTimeSinceTheEpoch(lastQuery, now) ==
    IF lastQuery = InvalidDate THEN 0
    ELSE IF lastQuery = NoTimestamp THEN AUDIT_LOG_QUERY_INTERVAL_IN_MS - now
    ELSE lastQuery + AUDIT_LOG_QUERY_INTERVAL_IN_MS - now

\* Mutant of NextQueryWaitTime: no query waits for the one before it.
NextQueryWaitTimeOfNoThrottle(lastQuery, now) == 0

\* "nextQueryWaitTime = lastQueryTimestamp === null ? 0
\*     : lastQueryTimestamp.getTime() + AUDIT_LOG_QUERY_INTERVAL_IN_MS - Date.now()"
\* With an invalid date the sum is NaN, and "NaN > 0" is false as "0 > 0" is:
\* the model writes 0 for it.
\* Mutant of NextQueryWaitTime: half the interval is waited for.
NextQueryWaitTimeOfHalfTheInterval(lastQuery, now) ==
    IF lastQuery \in {NoTimestamp, InvalidDate} THEN 0
    ELSE lastQuery + AUDIT_LOG_QUERY_INTERVAL_IN_MS \div 2 - now

NextQueryWaitTime(lastQuery, now) ==
    IF lastQuery \in {NoTimestamp, InvalidDate} THEN 0
    ELSE lastQuery + AUDIT_LOG_QUERY_INTERVAL_IN_MS - now

\* The head of the chunk loop: its condition, the throttle of the audit-log
\* queries, and the submission of the chunk's job or query.
EnterChunk(o, now) ==
    IF ~(o.cur < o.end) THEN Return(o)
    ELSE IF Kind(o.op) = "audit" /\ NextQueryWaitTime(o.lastQuery, now) > 0
      THEN Sleep([o EXCEPT !.due = now + NextQueryWaitTime(o.lastQuery, now)], "throttle")
    ELSE Await(o, "submit")

\* Mutant of NextChunk: the loop update moves the end of the chunk only.
NextChunkFromTheSameStart(o, now) ==
    EnterChunk([o EXCEPT !.curEnd = Min(o.curEnd + o.span, o.end)], now)

\* Mutant of NextChunk: the end of the next chunk is not clamped to the end of
\* the range.
NextChunkUnclamped(o, now) ==
    EnterChunk([o EXCEPT !.cur = o.curEnd, !.curEnd = o.curEnd + o.span], now)

\* The update of the chunk loop: the next chunk starts where this one ended.
NextChunk(o, now) ==
    EnterChunk([o EXCEPT !.cur = o.curEnd, !.curEnd = Min(o.curEnd + o.span, o.end)], now)

\* The code of an operation from its argument checks to its first suspension point.
Begin(o, a) ==
    CASE Kind(o.op) \in {"bounded", "members", "oldest"} ->
           Await([o EXCEPT !.page = 1], "list")
      [] Kind(o.op) = "availability" -> Await(o, "availability")
      [] Kind(o.op) = "export" ->
           Await([o EXCEPT !.cur = a.start, !.end = a.end,
                           !.span = a.daysPerJob * DayInMs,
                           !.asked = <<a.start, a.end, a.daysPerJob>>], "availability")
      [] Kind(o.op) = "audit" ->
           \* lastQueryTimestamp is null: the first query is not throttled
           EnterChunk([o EXCEPT !.cur = a.start, !.end = a.end,
                                !.asked = <<a.start, a.end, a.daysPerJob>>,
                                !.span = AUDIT_LOG_QUERY_MAX_DAYS * DayInMs,
                                !.curEnd = Min(a.start + AUDIT_LOG_QUERY_MAX_DAYS * DayInMs,
                                               a.end)], 0)

\* Mutant of FirstStep: the arguments are checked before the state.
FirstStepValidatingFirst(op, a, state) ==
    LET o == [IdleOp EXCEPT !.op = op, !.startedIn = state,
                            !.argsValid = (ValidateArgs(op, a) = NoError)] IN
    IF ValidateArgs(op, a) # NoError THEN Throw(o, ValidateArgs(op, a))
    ELSE IF NotConnected(state) THEN Throw(o, Err("CLIENT_NOT_CONNECTED"))
    ELSE Begin(o, a)

\* The first step: the state check, then the argument checks, then the code up
\* to the first suspension point.
FirstStep(op, a, state) ==
    LET o == [IdleOp EXCEPT !.op = op, !.startedIn = state,
                            !.argsValid = (ValidateArgs(op, a) = NoError)] IN
    IF NotConnected(state) THEN Throw(o, Err("CLIENT_NOT_CONNECTED"))
    ELSE IF ValidateArgs(op, a) # NoError THEN Throw(o, ValidateArgs(op, a))
    ELSE Begin(o, a)

\* Mutant of AfterDelete: once the job is deleted the error of the try block is
\* dropped and the next chunk is submitted.
AfterDeleteForgettingTheError(o, r) ==
    LET n == IF o.pendErr = Returning THEN Return(o) ELSE NextChunk(o, 0)
    IN  [n EXCEPT !.deleteThrew = r.threw]

\* Mutant of AfterDelete: the error of a failed deletion reaches the caller.
AfterDeleteSurfacingItsError(o, r) ==
    LET n == IF r.threw THEN Throw(o, CollaboratorError)
             ELSE IF o.pendErr = Returning THEN Return(o)
             ELSE IF o.pendErr # NoError THEN Throw(o, o.pendErr)
             ELSE NextChunk(o, 0)
    IN  [n EXCEPT !.deleteThrew = r.threw]

\* The step after the best-effort delete has settled, whatever it did
\* ("catch { }"): the pending completion of the try block goes on.
AfterDelete(o, r) ==
    LET n == IF o.pendErr = Returning THEN Return(o)
             ELSE IF o.pendErr # NoError THEN Throw(o, o.pendErr)
             ELSE NextChunk(o, 0)
    IN  [n EXCEPT !.deleteThrew = r.threw]

\* Mutant of NoData: data that ends at the start timestamp is data enough.
NoDataAfterTheAvailability(start, avail) == avail # InvalidDate /\ start > avail

\* "if (startTimestamp.getTime() >= ...DatalakeAvailabilityTimestamp.getTime())"
NoData(start, avail) == avail # InvalidDate /\ start >= avail

\* Mutant of AdjustedEnd: the end asked for is kept.
AdjustedEndOfTheCaller(end, avail) == end

\* "if (endTimestamp.getTime() > availability.getTime()) endTimestamp = new
\* Date(availability)": the end of the range an export works on.
AdjustedEnd(end, avail) == IF avail # InvalidDate /\ end > avail THEN avail ELSE end

\* Mutant of MorePages: the loop goes on while the page is not beyond the last.
MorePagesInclusive(page, pageCount) == page <= pageCount

\* Mutant of MorePages: the loop goes on until the page number equals pageCount.
MorePagesUntilEqual(page, pageCount) == page # pageCount

\* "while (currentPage < pageCount)"
MorePages(page, pageCount) == page < pageCount

\* Mutant of RaiseOutsideTry: the submission is checked inside the try block.
RaiseOutsideTryCleaningUp(o, e) == Finally(o, e)

\* An error of the checks of an export submission response: they stand before
\* the try block, no finally block runs.
RaiseOutsideTry(o, e) == Throw(o, e)

\* Mutant of AfterQueryAccepted: the state of the submission response is
\* classified as a polled state is.
AfterQueryAcceptedClassifying(q) ==
    LET step == AuditPollStep(q.jobState)
    IN  CASE step = "drain" -> Drain(q)
          [] step = "poll" -> WaitBackoff(q)
          [] OTHER -> Raise(q, JobError(q.op, step, q.jobState))

\* "while (auditLogQueryState !== "Succeeded")" on the state of the submission
\* response: the loop is skipped or entered, the state is not classified.
AfterQueryAccepted(q) == IF q.jobState # "Succeeded" THEN WaitBackoff(q) ELSE Drain(q)

\* The step after an awaited collaborator call has settled with response r.
AfterResponse(o, r) ==
    LET e == ResponseError(r, FieldsOf(o.op, o.call))
        kind == Kind(o.op)
    IN
    CASE o.call = "list" /\ kind = "bounded" ->
           IF e # NoError THEN Throw(o, e) ELSE Yield([o EXCEPT !.resN = r.n, !.batch = r.len])
      [] o.call = "list" /\ kind = "members" ->
           IF e # NoError THEN Throw(o, e) ELSE Yield([o EXCEPT !.resS = CursorOf(r)])
      [] o.call = "list" /\ kind = "oldest" ->
           IF e # NoError THEN Throw(o, e)
           ELSE IF MorePages(o.page, r.n)
             THEN Await([o EXCEPT !.pageCount = r.n, !.page = o.page + 1], "list")
             ELSE Return([o EXCEPT !.pageCount = r.n])
      [] o.call = "availability" /\ kind = "availability" ->
           IF e # NoError THEN Throw(o, e) ELSE Return([o EXCEPT !.resN = r.n])
      [] o.call = "availability" /\ kind = "export" ->
           \* every comparison with the NaN of a string that is no date is false
           IF e # NoError THEN Throw(o, e)
           ELSE IF NoData(o.cur, r.n) THEN Throw(o, Err("START_TIMESTAMP_NO_DATA"))
           ELSE LET end == AdjustedEnd(o.end, r.n)
                IN  EnterChunk([o EXCEPT !.end = end, !.curEnd = Min(o.cur + o.span, end),
                                         !.avail = r.n], 0)
      [] o.call = "submit" /\ kind = "export" ->
           IF e # NoError THEN RaiseOutsideTry(o, e)
           ELSE WaitBackoff([o EXCEPT !.backoff = 1, !.polls = 0])
      [] o.call = "submit" /\ kind = "audit" ->
           IF e # NoError THEN Throw(o, e)
           ELSE AfterQueryAccepted([o EXCEPT !.lastQuery = r.n, !.backoff = 1, !.polls = 0,
                                             !.jobState = r.s])
      [] o.call = "status" ->
           IF e # NoError THEN Raise(o, e)
           ELSE LET step == PollStep(o.op, r.s)
                    q == [o EXCEPT !.jobState = r.s]
                IN  CASE step = "drain" -> Drain(q)
                      [] step = "poll" -> WaitBackoff(q)
                      [] OTHER -> Raise(q, JobError(o.op, step, r.s))
      [] o.call = "results" ->
           \* the job state is not read again
           LET q == [o EXCEPT !.jobState = "null"]
           IN  IF e # NoError THEN Raise(q, e) ELSE Yield([q EXCEPT !.resS = CursorOf(r)])
      [] o.call = "delete" -> AfterDelete(o, r)

\* The step after the awaited SimpleTimer has fired.
AfterTimer(o) ==
    IF o.call = "backoff"
      \* the loop condition was the last to read the job state
      THEN Await([o EXCEPT !.polls = o.polls + 1, !.jobState = "null"], "status")
    ELSE Await(o, "submit")

\* The step after the consumer has asked for the next batch.
AfterYield(o, now) ==
    CASE Kind(o.op) = "bounded" ->
           LET q == [o EXCEPT !.pageCount = o.resN, !.resN = 0, !.batch = 0]
           IN  IF MorePages(q.page, q.pageCount)
                 THEN Await([q EXCEPT !.page = q.page + 1], "list")
               ELSE Return(q)
      [] Kind(o.op) = "members" ->
           LET q == [o EXCEPT !.cursor = o.resS, !.resS = "none"]
           IN  IF MoreResults(q.cursor) THEN Await([q EXCEPT !.page = q.page + 1], "list")
               ELSE Return(q)
      [] Kind(o.op) = "export" ->
           LET q == [o EXCEPT !.cursor = o.resS, !.resS = "none"]
           IN  IF MoreResults(q.cursor) THEN Request([q EXCEPT !.page = q.page + 1])
               ELSE Finally(q, NoError)
      [] Kind(o.op) = "audit" ->
           LET q == [o EXCEPT !.cursor = o.resS, !.resS = "none"]
           IN  IF MoreResults(q.cursor) THEN Request([q EXCEPT !.page = q.page + 1])
               ELSE NextChunk(q, now)

\* The step after the consumer has called return() on a generator suspended at
\* a yield: the finally block of an export runs, the other generators end.
AfterReturn(o) ==
    IF Kind(o.op) = "export" THEN Finally([o EXCEPT !.resS = "none", !.left = TRUE], Returning)
    ELSE [Return(o) EXCEPT !.left = TRUE]

-----------------------------------------------------------------------------
(* The actions of the data-fetch operations.  They run as jobs of their    *)
(* own: never while a lifecycle method is suspended inside an emit.        *)

\* An operation that goes on to await a collaborator call has issued it: in
\* the present lifecycle state, as its first call or a later one.
Issue(o, first) ==
    IF o.pc = "await"
      THEN [o EXCEPT !.issuedIn = clientState, !.first = first, !.issuedAt = clock.local]
    ELSE [o EXCEPT !.issuedIn = "none", !.first = FALSE]

\* An operation is polling or draining a job or query (for an export: it is
\* inside the try block): it waits for the polling backoff, for a status, for
\* a page of results, or for its consumer.
InTry(o) ==
    \/ o.pc = "timer" /\ o.call = "backoff"
    \/ o.pc = "await" /\ o.call \in {"status", "results"}
    \/ o.pc = "yield"

\* What the collaborator has seen once the operation has gone from `old` to
\* `new`: a submission it answered with an id is a job (or query) more, a
\* deletion call issued is a deletion call more; a call issued is the last
\* call, a submission issued carries the interval of the chunk.  An export job
\* is over when its deletion call has settled, an audit-log query when its
\* polling and draining have ended.  What was asked for and what was
\* submitted stay on record when the operation completes, not when it throws.
\* A page of results yielded is a batch more, and a response with a cursor more
\* when it carried one; the count starts again with the next job.  The start
\* date of an accepted audit-log query is the last one, the one before it the
\* last but one; they stay on record when the operation ends.
Account(old, new) ==
    [new EXCEPT
       !.starts = IF old.op = "getEventsFromAuditLog" /\ old.pc = "await"
                       /\ old.call = "submit" /\ new.pc # "threw"
                    THEN <<old.starts[2], new.lastQuery>>
                    ELSE old.starts,
       !.drain = IF new.pc = "yield" /\ new.op \in ExportOps \cup {"getEventsFromAuditLog"}
                   THEN <<old.drain[1] + (IF new.resS # "undefined" THEN 1 ELSE 0),
                          old.drain[2] + 1>>
                 ELSE IF new.pc = "await" /\ new.call = "results" /\ new.page > 1
                   THEN old.drain
                   ELSE IdleOp.drain,
       !.finished = old.finished +
                      (IF \/ old.op \in ExportOps /\ old.pc = "await" /\ old.call = "delete"
                          \/ old.op = "getEventsFromAuditLog" /\ InTry(old) /\ ~InTry(new)
                         THEN 1 ELSE 0),
       !.lastApi = IF new.pc = "await" THEN new.call
                   ELSE IF new.pc \in {"done", "threw"} THEN "none" ELSE old.lastApi,
       !.intervals = IF new.pc = "threw" THEN <<>>
                     ELSE IF new.pc = "await" /\ new.call = "submit"
                       THEN Append(old.intervals, <<new.cur, new.curEnd>>)
                       ELSE old.intervals,
       !.asked = IF new.pc = "threw" THEN IdleOp.asked
                 ELSE IF old.pc = "idle" THEN new.asked ELSE old.asked,
       !.avail = IF new.pc = "done" THEN old.avail ELSE new.avail,
       !.left = new.pc # "threw" /\ (old.left \/ new.left),
       !.backend = IF old.pc = "idle" THEN new.backend ELSE old.backend,
       !.tally = IF new.pc = "yield" /\ new.op \in BoundedOps
                   THEN <<old.tally[1] + 1, old.tally[2] + new.batch>>
                   ELSE old.tally,
       !.jobs = old.jobs + (IF old.pc = "await" /\ old.call = "submit" /\ new.pc # "threw"
                              THEN 1 ELSE 0),
       !.deletes = old.deletes + (IF new.pc = "await" /\ new.call = "delete" THEN 1 ELSE 0),
       !.deleteThrew = (old.pc = "await" /\ old.call = "delete" /\ new.deleteThrew)]

\* Mutant of Step: an operation that throws an error of the collaborator or of
\* a job takes the client to FAILED, as connect() and close() do.
StepFailingTheClient(i, o, first) ==
    /\ ops' = [ops EXCEPT ![i] = Account(ops[i], Issue(o, first))]
    /\ lastCall' = NoCall
    /\ clientState' = IF o.pc = "threw" /\ o.err # Err("CLIENT_NOT_CONNECTED")
                        THEN FAILED ELSE clientState
    /\ UNCHANGED <<connectPromise, closePromise, promises, api, apiCalls,
                   stack, listening, events, clock>>

Step(i, o, first) ==
    /\ ops' = [ops EXCEPT ![i] = Account(ops[i], Issue(o, first))]
    /\ lastCall' = NoCall
    /\ UNCHANGED <<clientState, connectPromise, closePromise, promises, api, apiCalls,
                   stack, listening, events, clock>>

\* The first next() of a generator, or the call of an async method.
opStart(i, op, a) ==
    /\ stack = <<>>
    /\ ops[i].pc = "idle"
    /\ Step(i, FirstStep(op, a, clientState), TRUE)

\* The awaited collaborator call settles.
opSettled(i, scope) ==
    /\ stack = <<>>
    /\ ops[i].pc = "await"
    /\ \E r \in Responses(ops[i], scope) : Step(i, AfterResponse(ops[i], r), FALSE)

\* The awaited timer fires.
opTimer(i) ==
    /\ stack = <<>>
    /\ ops[i].pc = "timer"
    /\ Step(i, AfterTimer(ops[i]), FALSE)

\* The consumer calls next() on a generator suspended at a yield.
opNext(i, now) ==
    /\ stack = <<>>
    /\ ops[i].pc = "yield"
    /\ Step(i, AfterYield(ops[i], now), FALSE)

\* The consumer calls return() on a generator suspended at a yield (it leaves
\* its "for await" loop).
opReturn(i) ==
    /\ stack = <<>>
    /\ ops[i].pc = "yield"
    /\ Step(i, AfterReturn(ops[i]), FALSE)

-----------------------------------------------------------------------------
(* The constructor.                                                        *)

\* The arguments of "new GCDataUtils(gcClientId, gcClientSecret, gcRegion,
\* options)" by what the checks tell apart; the options are an object or are
\* left out, and an option that is left out takes its default.
OptionValues == {"default", "valid", "notInteger", "lessThanOne"}

ConstructorArgs ==
    [gcClientId : {"UUID", "notString", "notUUID"},
     gcClientSecret : {"string", "notString"},
     gcRegion : {"region", "notString", "notRegion"},
     socketTimeout : OptionValues,
     timeBetweenRequests : OptionValues,
     maxRetries : OptionValues]

\* "typeof x !== 'number' || Number.isInteger(x) === false", then "x < 1".
OptionError(value, name) ==
    IF value = "notInteger" THEN Err(name \o "_TYPE_INVALID")
    ELSE IF value = "lessThanOne" THEN Err(name \o "_OUT_OF_BOUNDS")
    ELSE NoError

ClientIdError(a) ==
    IF a.gcClientId = "notString" THEN Err("CLIENT_ID_TYPE_INVALID")
    ELSE IF a.gcClientId = "notUUID" THEN Err("CLIENT_ID_INVALID_UUID")
    ELSE NoError

ClientSecretError(a) ==
    IF a.gcClientSecret = "notString" THEN Err("CLIENT_SECRET_TYPE_INVALID") ELSE NoError

\* Mutant of RegionError: the list of regions is consulted before the type.
RegionErrorOfTheListFirst(a) ==
    IF a.gcRegion # "region" THEN Err("REGION_INVALID") ELSE NoError

RegionError(a) ==
    IF a.gcRegion = "notString" THEN Err("REGION_TYPE_INVALID")
    ELSE IF a.gcRegion = "notRegion" THEN Err("REGION_INVALID")
    ELSE NoError

\* The argument checks of the constructor, in the order of the code.
ConstructorError(a) ==
    FirstError(<<ClientIdError(a), ClientSecretError(a), RegionError(a),
                 OptionError(a.socketTimeout, "SOCKET_TIMEOUT"),
                 OptionError(a.timeBetweenRequests, "TIME_BETWEEN_REQUESTS"),
                 OptionError(a.maxRetries, "MAX_RETRIES")>>)

\* "new GCPlatformAPIClient(...)": the collaborator's constructor is given
\* arguments that passed the checks above and is taken to accept them.
NewGCPlatformAPIClient(a) == "ok"

\* No instance exists: the fields have their initial values.
NoInstance ==
    /\ clientState = "null"
    /\ connectPromise = NoPromise
    /\ closePromise = NoPromise
    /\ promises = <<>>
    /\ api = {}
    /\ apiCalls = [connect |-> 0, close |-> 0]
    /\ stack = <<>>
    /\ listening = FALSE
    /\ events = <<>>
    /\ lastCall = NoCall

\* new GCDataUtils(...): it throws and leaves no instance, or ends with
\* #changeState(CREATED), which no listener can hear.
constructor(a) ==
    /\ NoInstance
    /\ IF ConstructorError(a) # NoError
         THEN /\ lastCall' = Thrown("constructor", By, "null", ConstructorError(a).name)
              /\ UNCHANGED <<clientState, events>>
         ELSE IF NewGCPlatformAPIClient(a) # "ok"
         THEN /\ lastCall' = Thrown("constructor", By, "null", "INTERNAL_ERROR")
              /\ UNCHANGED <<clientState, events>>
         ELSE /\ changeState(CREATED)
              /\ lastCall' = Returned("constructor", By, "null", NoPromise)
    /\ UNCHANGED <<connectPromise, closePromise, promises, api, apiCalls, stack, listening,
                   ops, clock>>

-----------------------------------------------------------------------------
(* The specifications.                                                     *)

NoOps == ops = [i \in OpIds |-> IdleOp]

\* The two clocks when they agree and time is left out of the picture.
NoTime == [local |-> 0, server |-> 0]

\* After construction.
Init ==
    /\ clientState = CREATED
    /\ connectPromise = NoPromise
    /\ closePromise = NoPromise
    /\ promises = <<>>
    /\ api = {}
    /\ apiCalls = [connect |-> 0, close |-> 0]
    /\ stack = <<>>
    /\ listening = FALSE
    /\ events = << Notification("null", CREATED, FALSE) >>
    /\ lastCall = NoCall
    /\ NoOps
    /\ clock = NoTime

\* The lifecycle, its listeners and the data-fetch operations.
Next ==
    \/ on
    \/ connect
    \/ connectReturn
    \/ \E outcome \in ApiOutcomes : connectSettled(outcome)
    \/ connectFinish
    \/ close
    \/ closeReturn
    \/ \E outcome \in ApiOutcomes : closeSettled(outcome)
    \/ closeFinish
    \/ \E i \in OpIds, op \in OpNames : \E a \in ArgsOf(op, GateScope) : opStart(i, op, a)
    \/ \E i \in OpIds : opSettled(i, GateScope)
    \/ \E i \in OpIds : opTimer(i)
    \/ \E i \in OpIds, now \in GateScope.clock : opNext(i, now)
    \/ \E i \in OpIds : opReturn(i)

Spec == Init /\ [][Next]_vars

\* One call of the constructor and the lifecycle of the instance it returns.
ConstructorInit == NoInstance /\ NoOps /\ clock = NoTime

Constructed == clientState # "null"

ConstructorNext ==
    \/ \E a \in ConstructorArgs : constructor(a)
    \/ Constructed /\ on
    \/ Constructed /\ connect
    \/ Constructed /\ connectReturn
    \/ \E outcome \in ApiOutcomes : Constructed /\ connectSettled(outcome)
    \/ Constructed /\ connectFinish
    \/ Constructed /\ close
    \/ Constructed /\ closeReturn
    \/ \E outcome \in ApiOutcomes : Constructed /\ closeSettled(outcome)
    \/ Constructed /\ closeFinish

ConstructorSpec == ConstructorInit /\ [][ConstructorNext]_vars

\* After "await client.connect()" has returned true.
ConnectedClient ==
    /\ clientState = CONNECTED
    /\ connectPromise = NoPromise
    /\ closePromise = NoPromise
    /\ promises = << [status |-> "fulfilled", value |-> "true"] >>
    /\ api = {[call |-> "connect", promise |-> 1, outcome |-> "ok"]}
    /\ apiCalls = [connect |-> 1, close |-> 0]
    /\ stack = <<>>
    /\ listening = FALSE
    /\ events = << Notification("null", CREATED, FALSE),
                   Notification(CREATED, CONNECTING, FALSE),
                   Notification(CONNECTING, CONNECTED, FALSE) >>
    /\ lastCall = NoCall

ConnectedInit ==
    /\ ConnectedClient
    /\ NoOps
    /\ clock = NoTime

\* The data-fetch operations of a connected client, and its close().
DataNext ==
    \/ close
    \/ closeReturn
    \/ \E outcome \in ApiOutcomes : closeSettled(outcome)
    \/ closeFinish
    \/ \E i \in OpIds, op \in OpNames : \E a \in ArgsOf(op, DataScope) : opStart(i, op, a)
    \/ \E i \in OpIds : opSettled(i, DataScope)
    \/ \E i \in OpIds : opTimer(i)
    \/ \E i \in OpIds, now \in DataScope.clock : opNext(i, now)
    \/ \E i \in OpIds : opReturn(i)

DataSpec == ConnectedInit /\ [][DataNext]_vars

\* The operations that run jobs or queries.
JobOps == ExportOps \cup {"getEventsFromAuditLog"}

\* The jobs and queries of a connected client, polled for long.
PollNext ==
    \/ \E i \in OpIds, op \in JobOps : \E a \in ArgsOf(op, PollScope) : opStart(i, op, a)
    \/ \E i \in OpIds : opSettled(i, PollScope)
    \/ \E i \in OpIds : opTimer(i)
    \/ \E i \in OpIds, now \in PollScope.clock : opNext(i, now)
    \/ \E i \in OpIds : opReturn(i)

PollSpec == ConnectedInit /\ [][PollNext]_vars

\* The bounded paginations of a connected client, whose backend reports any
\* pageCount with any page.
ListPages == 3        \* a response reports a pageCount of 0 .. ListPages

ListScope == Scope(ListPages, 0, 0, 0, 0)

ListNext ==
    \/ \E i \in OpIds, op \in BoundedOps : \E a \in ArgsOf(op, ListScope) : opStart(i, op, a)
    \/ \E i \in OpIds : opSettled(i, ListScope)
    \/ \E i \in OpIds, now \in ListScope.clock : opNext(i, now)
    \/ \E i \in OpIds : opReturn(i)

ListSpec == ConnectedInit /\ [][ListNext]_vars

\* Every operation of a connected client, called with valid arguments and
\* answered with responses of every shape.
ChecksPages == 2      \* a paginated sequence has at most this many pages
ChecksHalfDays == 1   \* export timestamps are 0 .. ChecksHalfDays half days

ChecksScope == Scope(ChecksPages, GatePolls, ChecksHalfDays, GateAuditSteps, GateClockTicks)

ValidArgsOf(op, scope) == {a \in ArgsOf(op, scope) : ValidateArgs(op, a) = NoError}

ChecksNext ==
    \/ \E i \in OpIds, op \in OpNames : \E a \in ValidArgsOf(op, ChecksScope) : opStart(i, op, a)
    \/ \E i \in OpIds : opSettled(i, ChecksScope)
    \/ \E i \in OpIds : opTimer(i)
    \/ \E i \in OpIds, now \in ChecksScope.clock : opNext(i, now)
    \/ \E i \in OpIds : opReturn(i)

ChecksSpec == ConnectedInit /\ [][ChecksNext]_vars

\* A synthetic backend of N items in pages of P: ceil(N / P) pages ...
Ceil(N, P) == (N + P - 1) \div P

\* ... and page number `page` is the page-th block of P items.
PageOf(N, P, page) ==
    LET rest == N - (page - 1) * P
    IN  [Resp(FALSE, TRUE, "ok", "ok", "ok") EXCEPT
           !.n = Ceil(N, P),
           !.len = IF rest <= 0 THEN 0 ELSE Min(P, rest)]

\* The first next() of a bounded pagination whose requests go to a backend of
\* N items, with page size P.
pagedStart(i, op, N, P) ==
    /\ stack = <<>>
    /\ ops[i].pc = "idle"
    /\ Step(i, [FirstStep(op, DefaultArgs, clientState) EXCEPT !.backend = <<N, P>>], TRUE)

\* The backend answers the request of a page.
pagedSettled(i) ==
    /\ stack = <<>>
    /\ ops[i].pc = "await"
    /\ Step(i, AfterResponse(ops[i], PageOf(ops[i].backend[1], ops[i].backend[2],
                                            ops[i].page)), FALSE)

\* The bounded paginations of a connected client, served by the synthetic backend.
PagedNext ==
    \/ \E i \in OpIds, op \in BoundedOps, N \in 0..MaxItems, P \in 1..MaxPageSize :
          pagedStart(i, op, N, P)
    \/ \E i \in OpIds : pagedSettled(i)
    \/ \E i \in OpIds, now \in GateScope.clock : opNext(i, now)
    \/ \E i \in OpIds : opReturn(i)

PagedSpec == ConnectedInit /\ [][PagedNext]_vars

\* The audit-log operation of a connected client while time passes.  The
\* program's clock and the server's advance together; the server's is behind,
\* level with or ahead of the program's.
TickMs == AUDIT_LOG_QUERY_INTERVAL_IN_MS \div 2

ThrottleTimes == {k * TickMs : k \in 0..(ThrottleTicks + 2 * ThrottleSkewTicks)}

ThrottleScope ==
    [Scope(GatePages, GatePolls, 0, ThrottleAuditSteps, 0)
       EXCEPT !.clock = ThrottleTimes, !.garbled = {InvalidDate}]

ThrottleInit ==
    /\ ConnectedClient
    /\ NoOps
    /\ \E skew \in (-ThrottleSkewTicks)..ThrottleSkewTicks :
          clock = [local |-> ThrottleSkewTicks * TickMs,
                   server |-> (ThrottleSkewTicks + skew) * TickMs]

\* Time passes.
tick ==
    /\ clock.local < (ThrottleSkewTicks + ThrottleTicks) * TickMs
    /\ clock' = [local |-> clock.local + TickMs, server |-> clock.server + TickMs]
    /\ UNCHANGED <<clientState, connectPromise, closePromise, promises, api, apiCalls,
                   stack, listening, events, lastCall, ops>>

\* "startDate": the server's time when the query reached it, between the
\* submission and its answer; or a string that is no date.
StartDates(o) ==
    {t \in ThrottleTimes : /\ o.issuedAt + (clock.server - clock.local) <= t
                           /\ t <= clock.server}
      \cup {InvalidDate}

\* The awaited collaborator call settles, at the present time.
timedSettled(i) ==
    /\ stack = <<>>
    /\ ops[i].pc = "await"
    /\ \E r \in Responses(ops[i], ThrottleScope) :
          /\ (/\ ops[i].call = "submit"
              /\ ResponseError(r, FieldsOf(ops[i].op, ops[i].call)) = NoError)
                => r.n \in StartDates(ops[i])
          /\ Step(i, AfterResponse(ops[i], r), FALSE)

\* The awaited timer fires: the throttle timer not before it is due.
timedTimer(i) ==
    /\ ops[i].call = "throttle" => ops[i].due <= clock.local
    /\ opTimer(i)

\* The consumer calls next() at the present time.
timedNext(i) == opNext(i, clock.local)

ThrottleNext ==
    \/ tick
    \/ \E i \in OpIds : \E a \in ArgsOf("getEventsFromAuditLog", ThrottleScope) :
          opStart(i, "getEventsFromAuditLog", a)
    \/ \E i \in OpIds : timedSettled(i)
    \/ \E i \in OpIds : timedTimer(i)
    \/ \E i \in OpIds : timedNext(i)
    \/ \E i \in OpIds : opReturn(i)

ThrottleSpec == ThrottleInit /\ [][ThrottleNext]_vars

\* Every data-fetch operation of a connected client, called with every
\* combination of arguments; the collaborator's date strings need not be dates.
ArgsHalfDays == 1     \* export timestamps of the argument checks are 0 .. ArgsHalfDays half days

ArgsScope ==
    [Scope(GatePages, GatePolls, ArgsHalfDays, GateAuditSteps, GateClockTicks)
       EXCEPT !.garbled = {InvalidDate}]

ArgsNext ==
    \/ \E i \in OpIds, op \in OpNames : \E a \in ArgsOf(op, ArgsScope) : opStart(i, op, a)
    \/ \E i \in OpIds : opSettled(i, ArgsScope)
    \/ \E i \in OpIds : opTimer(i)
    \/ \E i \in OpIds, now \in ArgsScope.clock : opNext(i, now)
    \/ \E i \in OpIds : opReturn(i)

ArgsSpec == ConnectedInit /\ [][ArgsNext]_vars

\* Two data-fetch sequences at a time on one connected client.
PairIds == {1, 2}

\* Two getEventsFromAuditLog calls at a time on one connected client while time
\* passes, the clocks of the program and of the server level: the first call
\* covers the longest date range, the second the shortest.
PairThrottleArgs(i) ==
    LET valid == {a \in ArgsOf("getEventsFromAuditLog", ThrottleScope) :
                    /\ ValidateArgs("getEventsFromAuditLog", a) = NoError
                    /\ a.start = 0
                    /\ a.entityType = "undefined"}
    IN  {a \in valid : \A b \in valid : IF i = 1 THEN b.end <= a.end ELSE a.end <= b.end}

PairThrottleInit ==
    /\ ConnectedClient
    /\ ops = [i \in PairIds |-> IdleOp]
    /\ clock = [local |-> ThrottleSkewTicks * TickMs, server |-> ThrottleSkewTicks * TickMs]

PairThrottleNext ==
    \/ tick
    \/ \E i \in PairIds : \E a \in PairThrottleArgs(i) :
          opStart(i, "getEventsFromAuditLog", a)
    \/ \E i \in PairIds : timedSettled(i)
    \/ \E i \in PairIds : timedTimer(i)
    \/ \E i \in PairIds : timedNext(i)
    \/ \E i \in PairIds : opReturn(i)

PairThrottleSpec == PairThrottleInit /\ [][PairThrottleNext]_vars


PairScope == Scope(GatePages, GatePolls, MaxHalfDays, MaxAuditSteps, GateClockTicks)

PairInit ==
    /\ ConnectedClient
    /\ ops = [i \in PairIds |-> IdleOp]
    /\ clock = NoTime

\* Both sequences are called with valid arguments, over the longest date range.
PairArgs(op) ==
    {a \in ArgsOf(op, PairScope) :
        /\ ValidateArgs(op, a) = NoError
        /\ a.start = 0
        /\ \A b \in ArgsOf(op, PairScope) : b.end <= a.end
        /\ a.entityType = "undefined"}

PairNext ==
    \/ \E i \in PairIds, op \in JobOps : \E a \in PairArgs(op) : opStart(i, op, a)
    \/ \E i \in PairIds : opSettled(i, PairScope)
    \/ \E i \in PairIds : opTimer(i)
    \/ \E i \in PairIds, now \in PairScope.clock : opNext(i, now)
    \/ \E i \in PairIds : opReturn(i)

PairSpec == PairInit /\ [][PairNext]_vars

\* The jobs and queries of a connected client, over long date ranges.
ChunkNext ==
    \/ \E i \in OpIds, op \in JobOps : \E a \in ArgsOf(op, ChunkScope) : opStart(i, op, a)
    \/ \E i \in OpIds : opSettled(i, ChunkScope)
    \/ \E i \in OpIds : opTimer(i)
    \/ \E i \in OpIds, now \in ChunkScope.clock : opNext(i, now)
    \/ \E i \in OpIds : opReturn(i)

ChunkSpec == ConnectedInit /\ [][ChunkNext]_vars

\* ... when every awaited call settles, every timer fires and the consumer of
\* a sequence suspended at a yield asks for the next batch (or leaves).  The
\* backend of LiveScope reports a status outside the continue-set after
\* LivePolls polls at the latest and omits the cursor on page LivePages at the
\* latest.
LivePages == 2
LivePolls == 1
LiveHalfDays == 4
LiveAuditSteps == 2

LiveScope == Scope(LivePages, LivePolls, LiveHalfDays, LiveAuditSteps, GateClockTicks)

LiveNext ==
    \/ \E i \in OpIds, op \in JobOps : \E a \in ValidArgsOf(op, LiveScope) : opStart(i, op, a)
    \/ \E i \in OpIds : opSettled(i, LiveScope)
    \/ \E i \in OpIds : opTimer(i)
    \/ \E i \in OpIds, now \in LiveScope.clock : opNext(i, now)
    \/ \E i \in OpIds : opReturn(i)

LiveFairness ==
    \A i \in OpIds :
       /\ WF_vars(opSettled(i, LiveScope))
       /\ WF_vars(opTimer(i))
       /\ WF_vars(\E now \in LiveScope.clock : opNext(i, now))

LiveSpec == ConnectedInit /\ [][LiveNext]_vars /\ LiveFairness

-----------------------------------------------------------------------------
(* The claims.                                                             *)

\* The edges of the state diagram.
Edges ==
    {<<CREATED, CONNECTING>>, <<CONNECTING, CONNECTED>>, <<CONNECTING, FAILED>>,
     <<CONNECTED, CLOSING>>, <<CLOSING, CLOSED>>, <<CLOSING, FAILED>>}

\* C1: the state is CREATED after construction and, whatever is called and
\* however the collaborator answers, it changes only along the edges of the
\* state diagram; CLOSED and FAILED have no outgoing edge.
C1_StateChangesOnlyAlongEdges ==
    /\ clientState = CREATED
    /\ [][clientState' # clientState => <<clientState, clientState'>> \in Edges]_vars

\* C1, witness: a client that went all the way to CLOSING and failed there.
C1_Witness ==
    /\ clientState = FAILED
    /\ Len(events) = 5
    /\ events[5].previousState = CLOSING
    /\ events[5].newState = FAILED

\* C2: a connect() called while the state is CONNECTING returns the very
\* promise of the pending connection attempt (the one returned to the call
\* that started it), and there is still only one attempt.
C2_ConnectWhileConnectingReturnsThePromise ==
    (lastCall.fn = "connect" /\ lastCall.pre = CONNECTING) =>
        /\ lastCall.outcome = "returned"
        /\ \E c \in api : c.call = "connect" /\ c.promise = lastCall.ret
        /\ apiCalls.connect = 1

\* C3: a close() called while the state is CLOSING or CLOSED returns the very
\* promise of the close that was started from CONNECTED, and there is still
\* only one close.
C3_CloseWhileClosingReturnsThePromise ==
    (lastCall.fn = "close" /\ lastCall.pre \in {CLOSING, CLOSED}) =>
        /\ lastCall.outcome = "returned"
        /\ \E c \in api : c.call = "close" /\ c.promise = lastCall.ret
        /\ apiCalls.close = 1

\* C4: a connect() called in CONNECTED, CLOSING, CLOSED or FAILED throws
\* CONNECT_UNAVAILABLE; the call changes neither the state nor the
\* notifications emitted, and issues no collaborator call.
C4_ConnectUnavailable ==
    [][(lastCall'.fn = "connect" /\ lastCall'.pre \in {CONNECTED, CLOSING, CLOSED, FAILED}) =>
          /\ lastCall'.outcome = "threw"
          /\ lastCall'.err = "CONNECT_UNAVAILABLE"
          /\ lastCall'.pre = clientState
          /\ UNCHANGED <<clientState, events, api, apiCalls, promises, connectPromise>>]_vars

\* C4, witness: connect() has just thrown on a client that is closing.
C4_Witness ==
    /\ lastCall.fn = "connect"
    /\ lastCall.pre = CLOSING
    /\ lastCall.outcome = "threw"
    /\ clientState = CLOSING

\* C5: a close() called in CREATED, CONNECTING or FAILED throws
\* CLOSE_UNAVAILABLE and changes neither the state nor the collaborator calls;
\* the collaborator's close() is invoked only by a close() called in CONNECTED.
C5_CloseUnavailable ==
    [][/\ (lastCall'.fn = "close" /\ lastCall'.pre \in {CREATED, CONNECTING, FAILED}) =>
            /\ lastCall'.outcome = "threw"
            /\ lastCall'.err = "CLOSE_UNAVAILABLE"
            /\ lastCall'.pre = clientState
            /\ UNCHANGED <<clientState, events, api, apiCalls, promises, closePromise>>
       /\ (clientState' = CLOSING /\ clientState # CLOSING) => clientState = CONNECTED
       /\ apiCalls'.close # apiCalls.close =>
            (lastCall'.fn = "close" /\ lastCall'.pre = CONNECTED)]_vars

\* C5, witness: close() has just thrown on a client whose connection failed.
C5_Witness ==
    /\ lastCall.fn = "close"
    /\ lastCall.pre = FAILED
    /\ lastCall.outcome = "threw"
    /\ clientState = FAILED

\* C6: the collaborator's connect() and close() are each invoked at most once.
C6_CollaboratorCalledAtMostOnce ==
    /\ apiCalls.connect <= 1
    /\ apiCalls.close <= 1
    /\ Cardinality({c \in api : c.call = "connect"}) <= 1
    /\ Cardinality({c \in api : c.call = "close"}) <= 1

\* C6, witness: both were invoked, and close() has been called once more since.
C6_Witness ==
    /\ apiCalls = [connect |-> 1, close |-> 1]
    /\ lastCall.fn = "close"
    /\ lastCall.pre = CLOSED

\* The error the connect promise is said to reject with, per collaborator error.
ClaimedConnectError(kind) ==
    CASE kind = "ID_NOT_FOUND" -> "CLIENT_ID_NOT_FOUND"
      [] kind = "AUTHENTICATION_FAILURE" -> "AUTHENTICATION_FAILURE"
      [] kind = "UNEXPECTED_RESPONSE_ERROR" -> "UNEXPECTED_RESPONSE_ERROR"
      [] kind = "UNEXPECTED_STATUS_CODE" -> "UNEXPECTED_STATUS_CODE"
      [] OTHER -> "INTERNAL_ERROR"

C8_ClosePromiseSettlesAfterTheState ==
    /\ (lastCall.fn = "close" /\ lastCall.pre = CONNECTED) =>
         /\ lastCall.outcome = "returned"
         /\ clientState = CLOSING
         /\ lastCall.ret \in DOMAIN promises
         /\ promises[lastCall.ret].status = "pending"
    /\ \A c \in api : c.call = "close" =>
         /\ promises[c.promise].status = "fulfilled" =>
              promises[c.promise].value = "true" /\ c.outcome = "ok" /\ clientState = CLOSED
         /\ promises[c.promise].status = "rejected" =>
              c.outcome \in ApiErrorKinds /\ clientState = FAILED

\* C8, witness: the collaborator's close() failed, and the close promise is rejected.
C8_Witness ==
    \E c \in api :
        /\ c.call = "close"
        /\ c.outcome = "UNEXPECTED_STATUS_CODE"
        /\ promises[c.promise].status = "rejected"

\* C9: an operation whose first step ran in a state other than CONNECTED has
\* thrown CLIENT_NOT_CONNECTED, whatever its arguments, and waits for no
\* collaborator call.
C9_NotConnectedComesFirst ==
    \A i \in OpIds : (ops[i].pc # "idle" /\ ops[i].startedIn # CONNECTED) =>
        /\ ops[i].pc = "threw"
        /\ ops[i].err = Err("CLIENT_NOT_CONNECTED")
        /\ ops[i].issuedIn = "none"

\* C9, witness: an audit-log query with invalid arguments on a closed client.
C9_Witness ==
    \E i \in OpIds :
        /\ ops[i].op = "getEventsFromAuditLog"
        /\ ops[i].startedIn = CLOSED
        /\ ~ops[i].argsValid
        /\ ops[i].pc = "threw"

\* C10, as claimed: every collaborator data call is issued while the state is
\* CONNECTED.
C10_EveryDataCallInConnected ==
    \A i \in OpIds : ops[i].pc = "await" => ops[i].issuedIn = CONNECTED

\* C10, amended: the first collaborator call of an operation is issued while
\* the state is CONNECTED; a later one is issued in CONNECTED or, when close()
\* was called in between, in CLOSING, CLOSED or FAILED.
C10_FirstDataCallInConnected ==
    \A i \in OpIds : ops[i].pc = "await" =>
        /\ ops[i].first => ops[i].issuedIn = CONNECTED
        /\ ops[i].issuedIn \in {CONNECTED, CLOSING, CLOSED, FAILED}

\* C10, witness: a later call of an export, issued after the client was closed.
C10_Witness ==
    \E i \in OpIds :
        /\ ops[i].pc = "await"
        /\ ops[i].call = "results"
        /\ ~ops[i].first
        /\ ops[i].issuedIn = CLOSED

\* C11: a step of a data-fetch operation changes neither the lifecycle state,
\* nor the cached connect and close promises, nor the promises themselves, nor
\* the notifications; in particular an operation that throws while the client
\* is CONNECTED leaves it CONNECTED.
C11_DataOperationsLeaveTheLifecycleAlone ==
    [][ops' # ops =>
          /\ UNCHANGED <<clientState, connectPromise, closePromise, promises, events,
                         api, apiCalls>>
          /\ \A i \in DOMAIN ops :
                (ops'[i].pc = "threw" /\ clientState = CONNECTED) => clientState' = CONNECTED]_vars

\* C11, witness: an audit-log operation has thrown the error of a failed
\* query, and the client is still CONNECTED.
C11_Witness ==
    /\ clientState = CONNECTED
    /\ \E i \in DOMAIN ops :
          /\ ops[i].pc = "threw"
          /\ ops[i].err.name = "AUDIT_LOG_QUERY_FAILED"

\* C12: for an export, every job the collaborator accepted gets exactly one
\* deletion call, on every way out of its chunk: while the job is polled or
\* drained the deletion calls are one short of the jobs, and from the moment
\* the chunk is left (the results are drained, the job failed, was cancelled,
\* expired or had an unknown status, a response was incomplete, the
\* collaborator threw, the consumer left) there are as many deletion calls as
\* jobs, also when the operation has ended.
C12_OneDeletionPerExportJob ==
    \A i \in DOMAIN ops : ops[i].op \in ExportOps =>
        /\ InTry(ops[i]) => ops[i].deletes = ops[i].jobs - 1
        /\ ~InTry(ops[i]) => ops[i].deletes = ops[i].jobs

\* C12, witness: the first job of an export was drained, the second expired,
\* and the export has thrown: two jobs, two deletion calls.
C12_Witness ==
    \E i \in DOMAIN ops :
        /\ ops[i].op = "getConversationsDetailsFromDatalake"
        /\ ops[i].pc = "threw"
        /\ ops[i].err.name = "CONVERSATIONS_DETAILS_JOB_EXPIRED"
        /\ ops[i].jobs = 2
        /\ ops[i].deletes = 2

\* C13, as claimed: an audit-log query the collaborator accepted gets exactly
\* one deletion call once its polling and draining are over, whatever the
\* outcome: an audit-log operation that has ended has issued as many deletion
\* calls as it had queries.
C13_OneDeletionPerAuditQuery ==
    \A i \in DOMAIN ops :
        (ops[i].op = "getEventsFromAuditLog" /\ ops[i].pc \in {"done", "threw"}) =>
            ops[i].deletes = ops[i].jobs

\* C13, amended: no deletion call is ever issued for an audit-log query; the
\* operation only submits, polls and drains its queries.
C13_NoDeletionOfAuditQueries ==
    \A i \in DOMAIN ops : ops[i].op = "getEventsFromAuditLog" =>
        /\ ops[i].deletes = 0
        /\ ops[i].call # "delete"

\* C13, witness: an audit-log operation has drained two queries and ended
\* without a deletion call.
C13_Witness ==
    \E i \in DOMAIN ops :
        /\ ops[i].op = "getEventsFromAuditLog"
        /\ ops[i].pc = "done"
        /\ ops[i].jobs = 2
        /\ ops[i].deletes = 0

\* C14: a deletion call that fails changes nothing of what the caller
\* observes.  When it settles after a drain, the export goes on to its next
\* chunk (it submits the next job) or completes; when it settles after a failed
\* poll or drain, the export throws the error of that poll or drain; when the
\* consumer had left, the export completes.  No second deletion call follows.
C14_FailedDeletionIsSwallowed ==
    [][\A i \in DOMAIN ops :
          (ops[i].pc = "await" /\ ops[i].call = "delete" /\ ops'[i] # ops[i]
             /\ ops'[i].deleteThrew) =>
              /\ ops[i].pendErr = NoError =>
                    \/ ops'[i].pc = "await" /\ ops'[i].call = "submit"
                          /\ ops'[i].cur = ops[i].curEnd
                    \/ ops'[i].pc = "done" /\ ops[i].curEnd = ops[i].end
              /\ ops[i].pendErr = Returning => ops'[i].pc = "done"
              /\ ops[i].pendErr \notin {NoError, Returning} =>
                    ops'[i].pc = "threw" /\ ops'[i].err = ops[i].pendErr
              /\ ops'[i].deletes = ops[i].deletes]_vars

\* C14, witness: the deletion of a drained job has failed, and the export has
\* submitted the job of its next chunk.
C14_Witness ==
    \E i \in DOMAIN ops :
        /\ ops[i].deleteThrew
        /\ ops[i].pc = "await"
        /\ ops[i].call = "submit"
        /\ ops[i].jobs = 1

\* The status strings that are said to lead to another poll, and to the drain.
ClaimedContinue(op) == IF op \in ExportOps THEN {"QUEUED", "PENDING"} ELSE {"Queued", "Running"}
ClaimedSuccess(op) == IF op \in ExportOps THEN "FULFILLED" ELSE "Succeeded"

\* The error each other status string is said to lead to.
ClaimedJobError(op, st) ==
    CASE op = "getConversationsDetailsFromDatalake" /\ st = "FAILED" ->
           "CONVERSATIONS_DETAILS_JOB_FAILED"
      [] op = "getConversationsDetailsFromDatalake" /\ st = "CANCELLED" ->
           "CONVERSATIONS_DETAILS_JOB_CANCELLED"
      [] op = "getConversationsDetailsFromDatalake" /\ st = "EXPIRED" ->
           "CONVERSATIONS_DETAILS_JOB_EXPIRED"
      [] op = "getUsersDetailsFromDatalake" /\ st = "FAILED" -> "USERS_DETAILS_JOB_FAILED"
      [] op = "getUsersDetailsFromDatalake" /\ st = "CANCELLED" -> "USERS_DETAILS_JOB_CANCELLED"
      [] op = "getUsersDetailsFromDatalake" /\ st = "EXPIRED" -> "USERS_DETAILS_JOB_EXPIRED"
      [] op = "getEventsFromAuditLog" /\ st = "Failed" -> "AUDIT_LOG_QUERY_FAILED"
      [] op = "getEventsFromAuditLog" /\ st = "Cancelled" -> "AUDIT_LOG_QUERY_CANCELLED"
      [] OTHER -> "INTERNAL_ERROR"

JobErrorNames ==
    {ClaimedJobError(op, st) : op \in ExportOps \cup {"getEventsFromAuditLog"},
                               st \in ExportStatuses \cup AuditStatuses \cup {"OTHER"}}

C16_BackoffDoublesUpToTheMaximum ==
    \A i \in DOMAIN ops :
        LET o == ops[i] IN
        /\ (o.pc = "timer" /\ o.call = "backoff") =>
               o.backoff = Min(2 ^ (o.polls + 1), 60)
        /\ (o.pc = "await" /\ o.call = "status") =>
               o.polls >= 1 /\ o.backoff = Min(2 ^ o.polls, 60)
        /\ o.backoff <= 60

\* C16, witness: the second job of an export waits for its seventh poll, 60 s
\* like for its sixth.
C16_Witness ==
    \E i \in DOMAIN ops :
        /\ ops[i].op \in ExportOps
        /\ ops[i].jobs = 2
        /\ ops[i].pc = "timer"
        /\ ops[i].call = "backoff"
        /\ ops[i].polls = 6
        /\ ops[i].backoff = 60

\* The order of the collaborator calls of a chunk, as claimed: submit, status
\* polls, result pages, the deletion attempt, and then the next submit.
ClaimedOrder ==
    {<<"none", "availability">>, <<"availability", "submit">>, <<"none", "submit">>,
     <<"submit", "status">>, <<"submit", "results">>, <<"status", "status">>,
     <<"status", "results">>, <<"results", "results">>,
     <<"status", "delete">>, <<"results", "delete">>, <<"delete", "submit">>}

\* The order of the calls of an audit-log query: there is no deletion attempt,
\* the next submit follows the last page of results.
AuditOrder ==
    {<<"none", "submit">>, <<"submit", "status">>, <<"submit", "results">>,
     <<"status", "status">>, <<"status", "results">>, <<"results", "results">>,
     <<"results", "submit">>}

\* Operation i issues a collaborator call in this step.
Issues(i) == ops'[i] # ops[i] /\ ops'[i].pc = "await"

\* The chunks submitted so far start in ascending order.
Ascending(o) ==
    \A k \in 1..(Len(o.intervals) - 1) : o.intervals[k][1] < o.intervals[k + 1][1]

\* C17, as claimed: in every date-range operation the chunks are submitted in
\* ascending order and the calls of a chunk are issued in the order submit,
\* status polls, result pages, deletion attempt; the next chunk is submitted
\* only when the deletion attempt of the present one has settled.
C17_ChunksInOrderEachEndingWithDeletion ==
    [][\A i \in DOMAIN ops : (ops'[i].op \in JobOps /\ Issues(i)) =>
          /\ <<ops[i].lastApi, ops'[i].call>> \in ClaimedOrder
          /\ Ascending(ops'[i])]_vars

\* C17, amended: the claim holds for the two exports; an audit-log operation
\* submits its chunks in ascending order too and issues the calls of a chunk in
\* the order submit, status polls, result pages, but it attempts no deletion:
\* its next chunk is submitted when the consumer has taken the last page of
\* results.
C17_ChunksInOrder ==
    [][\A i \in DOMAIN ops : Issues(i) =>
          /\ ops'[i].op \in ExportOps =>
                /\ <<ops[i].lastApi, ops'[i].call>> \in ClaimedOrder
                /\ ops'[i].call = "submit" /\ ops[i].lastApi # "availability" =>
                      ops[i].pc = "await" /\ ops[i].call = "delete"
          /\ ops'[i].op = "getEventsFromAuditLog" =>
                /\ <<ops[i].lastApi, ops'[i].call>> \in AuditOrder
                /\ ops'[i].call = "submit" /\ ops[i].lastApi # "none" =>
                      ops[i].pc \in {"yield", "timer"}
          /\ ops'[i].op \in JobOps => Ascending(ops'[i])]_vars

\* C17, witness: an export submits its third chunk, the deletion of the second
\* job having failed.
C17_Witness ==
    \E i \in DOMAIN ops :
        /\ ops[i].op \in ExportOps
        /\ ops[i].pc = "await"
        /\ ops[i].call = "submit"
        /\ Len(ops[i].intervals) = 3
        /\ ops[i].deletes = 2
        /\ ops[i].deleteThrew

\* The jobs or queries of an operation that are outstanding: accepted by the
\* collaborator, their processing and cleanup not yet over.
Outstanding(o) == o.jobs - o.finished

\* C18, as claimed: at any moment at most one job or query of the instance is
\* outstanding, whichever sequences its caller has started.
C18_OneOutstandingJobPerInstance ==
    \A i, j \in DOMAIN ops : i # j => Outstanding(ops[i]) + Outstanding(ops[j]) <= 1

\* C18, amended: at any moment at most one job or query of each data-fetch
\* sequence is outstanding; the next one is submitted when the present one is
\* over.  Two sequences of one instance hold a job each.
C18_OneOutstandingJobPerSequence ==
    \A i \in DOMAIN ops :
        /\ Outstanding(ops[i]) \in {0, 1}
        /\ (ops[i].pc = "await" /\ ops[i].call = "submit") => Outstanding(ops[i]) = 0
        /\ ops[i].pc \in {"done", "threw"} => Outstanding(ops[i]) = 0

\* C18, witness: an export is draining its second job while an audit-log
\* operation of the same instance polls its query.
C18_Witness ==
    \E i, j \in DOMAIN ops :
        /\ ops[i].op \in ExportOps
        /\ ops[i].jobs = 2
        /\ ops[i].pc = "yield"
        /\ Outstanding(ops[i]) = 1
        /\ ops[j].op = "getEventsFromAuditLog"
        /\ ops[j].pc = "await"
        /\ ops[j].call = "status"
        /\ Outstanding(ops[j]) = 1

\* The chunk span S of an operation, in the unit of its timestamps: daysPerJob
\* days for the exports, 30 days for the audit log.
ClaimedSpan(o) ==
    IF o.op \in ExportOps THEN o.asked[3] * DayInMs ELSE 30 * DayInMs

\* The intervals submitted so far are [start, min(start + S, end)) and its
\* contiguous successors, each non-empty and at most S long, none beyond `end`;
\* when the operation has completed (its consumer having taken every batch),
\* they reach `end`.
Chunked(o, end) ==
    LET n == Len(o.intervals)
        S == ClaimedSpan(o)
    IN  /\ n >= 1 => o.intervals[1][1] = o.asked[1]
        /\ \A k \in 1..n :
              /\ o.intervals[k][1] < o.intervals[k][2]
              /\ o.intervals[k][2] = Min(o.intervals[k][1] + S, end)
              /\ k < n => o.intervals[k + 1][1] = o.intervals[k][2]
        /\ (o.pc = "done" /\ ~o.left) => (n >= 1 /\ o.intervals[n][2] = end)

\* C19, as claimed: the intervals a date-range operation submits partition
\* the range [start, end) its caller asked for into chunks of S days, the last
\* one possibly shorter.
C19_ChunksCoverTheRangeAskedFor ==
    \A i \in DOMAIN ops : ops[i].op \in JobOps => Chunked(ops[i], ops[i].asked[2])

\* The end of the range an operation works on: the end asked for, or, for an
\* export whose datalake is available up to an earlier time, that time.
EffectiveEnd(o) ==
    IF o.op \in ExportOps /\ o.avail \notin {NoTimestamp, InvalidDate} /\ o.avail < o.asked[2]
      THEN o.avail ELSE o.asked[2]

\* C19, amended: the intervals partition [start, end) for the audit log, and
\* [start, min(end, availability timestamp of the datalake)) for the exports.
C19_ChunksCoverTheAvailableRange ==
    \A i \in DOMAIN ops : ops[i].op \in JobOps => Chunked(ops[i], EffectiveEnd(ops[i]))

\* C19, witness: an audit-log operation over 75 days has completed with the
\* chunks [0, 30), [30, 60), [60, 75) days.
C19_Witness ==
    \E i \in DOMAIN ops :
        /\ ops[i].op = "getEventsFromAuditLog"
        /\ ops[i].pc = "done"
        /\ ~ops[i].left
        /\ ops[i].intervals = << <<0, 30 * DayInMs>>, <<30 * DayInMs, 60 * DayInMs>>,
                                 <<60 * DayInMs, 75 * DayInMs>> >>

\* C20, as claimed: against a backend of N >= 0 items served in pages of
\* P >= 1, a bounded pagination that its consumer has followed to the end has
\* yielded ceil(N / P) batches, of N items together.
C20_BatchesAreCeilOfItemsByPageSize ==
    \A i \in DOMAIN ops :
        (ops[i].op \in BoundedOps /\ ops[i].pc = "done" /\ ~ops[i].left) =>
            ops[i].tally = <<Ceil(ops[i].backend[1], ops[i].backend[2]), ops[i].backend[1]>>

\* C20, amended: it has yielded ceil(N / P) batches when N >= 1 and one
\* (empty) batch when N = 0, of N items together; until then it has yielded
\* one batch per page requested, each of at most P items.
C20_BatchesOfABoundedPagination ==
    \A i \in DOMAIN ops : ops[i].op \in BoundedOps =>
        LET N == ops[i].backend[1]
            P == ops[i].backend[2]
        IN  /\ (ops[i].pc = "done" /\ ~ops[i].left) =>
                  ops[i].tally = <<IF N = 0 THEN 1 ELSE Ceil(N, P), N>>
            /\ ops[i].tally[2] <= ops[i].tally[1] * P
            /\ ops[i].tally[2] <= N

\* C20, witness: five items in pages of two were yielded as three batches.
C20_Witness ==
    \E i \in DOMAIN ops :
        /\ ops[i].op = "getAllQueues"
        /\ ops[i].pc = "done"
        /\ ~ops[i].left
        /\ ops[i].backend = <<5, 2>>
        /\ ops[i].tally = <<3, 5>>

\* C21: a cursor pagination (the results of an export job or of an audit-log
\* query) yields one batch per response, sends its first request without a
\* cursor and every later request with the cursor of the response before it,
\* and stops right after the first response without a cursor field: with a
\* cursor on the first K responses and none on the next it has yielded K + 1
\* batches.  An empty string is a cursor like any other.
C21_CursorPaginationFollowsTheCursor ==
    [][\A i \in DOMAIN ops :
         LET o == ops[i]
             n == ops'[i]
         IN  (o.op \in JobOps /\ n # o) =>
               /\ (o.pc = "await" /\ o.call = "results" /\ n.pc \notin {"await", "threw"}) =>
                      n.pc = "yield" /\ n.drain[2] = o.drain[2] + 1
               /\ n.pc = "yield" => (o.pc = "await" /\ o.call = "results")
               /\ (n.pc = "await" /\ n.call = "results" /\ o.pc # "yield") =>
                      n.sent = "none" /\ n.drain = <<0, 0>>
               /\ (o.pc = "yield" /\ o.resS \in CursorStrings) =>
                      /\ o.drain[2] = o.drain[1]
                      /\ ~n.left => n.pc = "await" /\ n.call = "results" /\ n.sent = o.resS
               /\ (o.pc = "yield" /\ o.resS \notin CursorStrings) =>
                      /\ o.drain[2] = o.drain[1] + 1
                      /\ ~(n.pc = "await" /\ n.call = "results")]_vars

\* C21, witness: an export has yielded the second batch of a job whose first
\* response carried the empty string as its cursor and whose second response
\* carried none.
C21_Witness ==
    \E i \in DOMAIN ops :
        /\ ops[i].op \in ExportOps
        /\ ops[i].pc = "yield"
        /\ ops[i].sent = ""
        /\ ops[i].resS = "undefined"
        /\ ops[i].drain = <<1, 2>>

\* Two start dates the server reported are at least the interval apart.
Spaced(first, second) == second >= first + AUDIT_LOG_QUERY_INTERVAL_IN_MS

\* C22, as claimed: within one getEventsFromAuditLog call, the start time the
\* server reports for a query is at least AUDIT_LOG_QUERY_INTERVAL_IN_MS later
\* than the start time it reported for the query submitted before it.
C22_ServerStartTimesAreSpaced ==
    \A i \in DOMAIN ops :
        (/\ ops[i].op = "getEventsFromAuditLog"
         /\ ops[i].starts[1] \in ThrottleTimes
         /\ ops[i].starts[2] \in ThrottleTimes) =>
            Spaced(ops[i].starts[1], ops[i].starts[2])

\* C22, amended: within one getEventsFromAuditLog call, a query that follows
\* one whose reported start date parses as a date is submitted when the
\* program's clock reads at least AUDIT_LOG_QUERY_INTERVAL_IN_MS more than that
\* start date; so the start dates the server reports are that far apart
\* whenever the server's clock is not behind the program's.
C22_SubmissionsWaitForTheInterval ==
    \A i \in DOMAIN ops :
        ops[i].op = "getEventsFromAuditLog" =>
          /\ (/\ ops[i].pc = "await"
              /\ ops[i].call = "submit"
              /\ ops[i].lastQuery \in ThrottleTimes) =>
                 Spaced(ops[i].lastQuery, ops[i].issuedAt)
          /\ (/\ clock.server >= clock.local
              /\ ops[i].starts[1] \in ThrottleTimes
              /\ ops[i].starts[2] \in ThrottleTimes) =>
                 Spaced(ops[i].starts[1], ops[i].starts[2])

\* C22, witness: with the clocks level, the server has accepted a second query
\* that had to wait for the throttle timer, exactly the interval after the first.
C22_Witness ==
    \E i \in DOMAIN ops :
        /\ clock.server = clock.local
        /\ ops[i].op = "getEventsFromAuditLog"
        /\ ops[i].jobs = 2
        /\ ops[i].starts[1] \in ThrottleTimes
        /\ ops[i].starts[2] = ops[i].starts[1] + AUDIT_LOG_QUERY_INTERVAL_IN_MS
        /\ ops[i].due = ops[i].starts[2]

\* The start dates on record for an audit-log call that parse as dates.
StartsOf(o) == {o.starts[k] : k \in 1..2} \cap ThrottleTimes

\* C23, as claimed: on one instance the start times of all audit-log queries
\* are at least AUDIT_LOG_QUERY_INTERVAL_IN_MS apart, those of queries
\* submitted by different getEventsFromAuditLog calls included.
C23_QueriesOfAnInstanceAreSpaced ==
    \A i \in DOMAIN ops, j \in DOMAIN ops :
        (ops[i].op = "getEventsFromAuditLog" /\ ops[j].op = "getEventsFromAuditLog") =>
            /\ ops[i].starts[1] \in ThrottleTimes /\ ops[i].starts[2] \in ThrottleTimes =>
                  Spaced(ops[i].starts[1], ops[i].starts[2])
            /\ i # j => \A s \in StartsOf(ops[i]), t \in StartsOf(ops[j]) :
                          Spaced(s, t) \/ Spaced(t, s)

\* C23, amended: each getEventsFromAuditLog call throttles its own queries
\* only.  Its first query is submitted without a wait whatever the other calls
\* on the instance have submitted; a later query waits until the interval has
\* passed since the start date of the query the same call submitted before it.
C23_EachCallThrottlesItsOwnQueries ==
    \A i \in DOMAIN ops :
        ops[i].op = "getEventsFromAuditLog" =>
          /\ (ops[i].pc \notin {"done", "threw"} /\ ops[i].lastQuery = NoTimestamp) =>
                ops[i].pc = "await" /\ ops[i].call = "submit"
          /\ (ops[i].pc = "timer" /\ ops[i].call = "throttle") =>
                /\ ops[i].lastQuery \in ThrottleTimes
                /\ ops[i].due = ops[i].lastQuery + AUDIT_LOG_QUERY_INTERVAL_IN_MS
          /\ (ops[i].pc = "await" /\ ops[i].call = "submit"
                /\ ops[i].lastQuery \in ThrottleTimes) =>
                Spaced(ops[i].lastQuery, ops[i].issuedAt)

\* C23, witness: while the first call waits for its throttle timer, the server
\* has accepted the query of the second call at the start time of the query of
\* the first.
C23_Witness ==
    /\ DOMAIN ops = PairIds
    /\ ops[1].pc = "timer"
    /\ ops[1].call = "throttle"
    /\ ops[2].op = "getEventsFromAuditLog"
    /\ ops[2].jobs = 1
    /\ ops[2].starts[2] \in ThrottleTimes
    /\ ops[2].starts[2] = ops[1].lastQuery

\* The statuses of a job or query that has ended in failure.
ClaimedFailure(op) ==
    IF op \in ExportOps THEN {"FAILED", "CANCELLED", "EXPIRED"} ELSE {"Failed", "Cancelled"}

\* C24: a polled status FAILED, CANCELLED or EXPIRED (Failed, Cancelled for an
\* audit-log query) ends the sequence with the error of that status.  The
\* audit-log operation throws it at once.  An export issues the deletion of the
\* failed job, submits nothing, and throws the error when the deletion call has
\* settled, whatever its outcome: the error reaches the caller after the
\* deletion attempt only.  An operation that has thrown takes no further step,
\* so no later chunk is submitted and the job is not submitted again.
C24_AFailedJobEndsTheSequence ==
    [][\A i \in DOMAIN ops :
         LET o == ops[i]
             n == ops'[i]
             polled == o.pc = "await" /\ o.call = "status"
             deleting == o.pc = "await" /\ o.call = "delete"
         IN  /\ o.pc = "threw" => n = o
             /\ (o.op = "getEventsFromAuditLog" /\ polled /\ n # o) =>
                   /\ n.pc # "threw" => n.jobState \notin ClaimedFailure(o.op)
                   /\ (n.pc = "threw" /\ n.err.detail[2] \in ClaimedFailure(o.op)) =>
                         /\ n.err.name = ClaimedJobError(o.op, n.err.detail[2])
                         /\ n.jobs = o.jobs
             /\ (o.op \in ExportOps /\ polled /\ n.jobState \in ClaimedFailure(o.op)) =>
                   /\ n.pc = "await" /\ n.call = "delete"
                   /\ n.pendErr = [name |-> ClaimedJobError(o.op, n.jobState),
                                   detail |-> <<"jobStatus", n.jobState>>]
                   /\ n.jobs = o.jobs /\ n.deletes = o.deletes + 1
             /\ (o.op \in ExportOps /\ deleting /\ o.pendErr.detail[1] = "jobStatus"
                   /\ n # o) =>
                   n.pc = "threw" /\ n.err = o.pendErr /\ n.jobs = o.jobs
             /\ (o.op \in ExportOps /\ n.pc = "threw" /\ n.err.detail[1] = "jobStatus"
                   /\ n # o) =>
                   deleting]_vars

\* C24, witness: an export has thrown the error of its second job, which
\* expired, after two deletion calls have settled, the second one failing.
C24_Witness ==
    \E i \in DOMAIN ops :
        /\ ops[i].op = "getConversationsDetailsFromDatalake"
        /\ ops[i].pc = "threw"
        /\ ops[i].err = [name |-> "CONVERSATIONS_DETAILS_JOB_EXPIRED",
                         detail |-> <<"jobStatus", "EXPIRED">>]
        /\ ops[i].jobs = 2
        /\ ops[i].deletes = 2
        /\ ops[i].finished = 2
        /\ ops[i].deleteThrew

\* C25: on a connected client, a date-range operation called with two Date
\* objects of which the first is not earlier than the second throws
\* INTERVAL_MISMATCH, whatever its other arguments, without a collaborator
\* call: the availability of the datalake is not asked for either.
C25_IntervalMismatchBeforeAnyCall ==
    [][\A i \in DOMAIN ops, op \in JobOps :
         \A a \in ArgsOf(op, ArgsScope) :
            (/\ opStart(i, op, a)
             /\ clientState = CONNECTED
             /\ a.startType = "Date"
             /\ a.endType = "Date"
             /\ a.start >= a.end) =>
                /\ ops'[i].pc = "threw"
                /\ ops'[i].err = Err("INTERVAL_MISMATCH")
                /\ ops'[i].lastApi = "none"]_vars

\* C25, witness: an export called on a connected client has thrown
\* INTERVAL_MISMATCH as its first step.
C25_Witness ==
    \E i \in DOMAIN ops :
        /\ ops[i].op \in ExportOps
        /\ ops[i].pc = "threw"
        /\ ops[i].err = Err("INTERVAL_MISMATCH")
        /\ ops[i].startedIn = CONNECTED
        /\ ~ops[i].argsValid

CloseIs(status) == closePromise # NoPromise /\ promises[closePromise].status = status

\* C28: the step that fulfils the promise of close() leaves no listener
\* registered; the CLOSED notification was emitted before it, to the listener
\* registered at that moment, and a listener that was registered when close()
\* was called has been invoked with CLOSING and with CLOSED; once close() has
\* succeeded no notification is emitted any more, so no listener is invoked.
C28_ListenersAreReleasedAfterClose ==
    /\ [][(CloseIs("pending") /\ CloseIs("fulfilled")') =>
            /\ listening' = FALSE
            /\ events' = events
            /\ events[Len(events) - 1].newState = CLOSING
            /\ events[Len(events)].newState = CLOSED
            /\ listening => events[Len(events)].heard
            /\ events[Len(events) - 1].heard => events[Len(events)].heard]_vars
    /\ [][CloseIs("fulfilled") => events' = events]_vars

\* C28, witness: close() has succeeded, the listener was invoked with CLOSING
\* and with CLOSED and is no longer registered.
C28_Witness ==
    /\ CloseIs("fulfilled")
    /\ clientState = CLOSED
    /\ ~listening
    /\ events[Len(events) - 1] = Notification(CONNECTED, CLOSING, TRUE)
    /\ events[Len(events)] = Notification(CLOSING, CLOSED, TRUE)

\* The error the constructor is said to raise: that of the first failing
\* check, in the order client id type, client id UUID, secret type, region
\* type, region value, then type and bounds of socketTimeout, of
\* timeBetweenRequests and of maxRetries.
ClaimedConstructorError(a) ==
    IF a.gcClientId = "notString" THEN "CLIENT_ID_TYPE_INVALID"
    ELSE IF a.gcClientId = "notUUID" THEN "CLIENT_ID_INVALID_UUID"
    ELSE IF a.gcClientSecret = "notString" THEN "CLIENT_SECRET_TYPE_INVALID"
    ELSE IF a.gcRegion = "notString" THEN "REGION_TYPE_INVALID"
    ELSE IF a.gcRegion = "notRegion" THEN "REGION_INVALID"
    ELSE IF a.socketTimeout = "notInteger" THEN "SOCKET_TIMEOUT_TYPE_INVALID"
    ELSE IF a.socketTimeout = "lessThanOne" THEN "SOCKET_TIMEOUT_OUT_OF_BOUNDS"
    ELSE IF a.timeBetweenRequests = "notInteger" THEN "TIME_BETWEEN_REQUESTS_TYPE_INVALID"
    ELSE IF a.timeBetweenRequests = "lessThanOne" THEN "TIME_BETWEEN_REQUESTS_OUT_OF_BOUNDS"
    ELSE IF a.maxRetries = "notInteger" THEN "MAX_RETRIES_TYPE_INVALID"
    ELSE IF a.maxRetries = "lessThanOne" THEN "MAX_RETRIES_OUT_OF_BOUNDS"
    ELSE "none"

\* C29: a construction whose arguments pass every check returns an instance in
\* the state CREATED; any other construction throws the error of the first
\* failing check in the claimed order and leaves no instance; neither calls the
\* collaborator's connect() or close().
C29_ConstructorChecksInOrder ==
    [][\A a \in ConstructorArgs :
         constructor(a) =>
            /\ api' = api
            /\ apiCalls' = apiCalls
            /\ IF ClaimedConstructorError(a) = "none"
                 THEN /\ lastCall'.outcome = "returned"
                      /\ clientState' = CREATED
                 ELSE /\ lastCall'.outcome = "threw"
                      /\ lastCall'.err = ClaimedConstructorError(a)
                      /\ clientState' = "null"]_vars

\* C29, witness: a construction that passed every check but the last one threw
\* MAX_RETRIES_OUT_OF_BOUNDS and left no instance.
C29_Witness ==
    /\ lastCall = Thrown("constructor", "caller", "null", "MAX_RETRIES_OUT_OF_BOUNDS")
    /\ clientState = "null"
    /\ api = {}

\* The validation errors that match the invalid arguments of a call.
ClaimedArgumentErrors(a) ==
    LET claimed ==
          {<<a.pageSize = "notInteger", "PAGE_SIZE_TYPE_INVALID">>,
           <<a.pageSize = "lessThanOne", "PAGE_SIZE_OUT_OF_BOUNDS">>,
           <<a.daysPerJobType = "notInteger", "DAYS_PER_JOB_TYPE_INVALID">>,
           <<a.daysPerJobType = "integer" /\ a.daysPerJob < 1, "DAYS_PER_JOB_OUT_OF_BOUNDS">>,
           <<a.queueId = "notString", "QUEUE_ID_TYPE_INVALID">>,
           <<a.queueId = "notUUID", "QUEUE_ID_INVALID_UUID">>,
           <<a.startType = "notDate", "START_TIMESTAMP_TYPE_INVALID">>,
           <<a.endType = "notDate", "END_TIMESTAMP_TYPE_INVALID">>,
           <<a.serviceName = "notString", "SERVICE_NAME_TYPE_INVALID">>,
           <<a.entityType = "notString", "ENTITY_TYPE_TYPE_INVALID">>}
    IN {Err(c[2]) : c \in {d \in claimed : d[1]}}

\* The timestamps of a call are Dates that make an empty or reversed interval.
ClaimedMismatch(a) == a.startType = "Date" /\ a.endType = "Date" /\ a.start >= a.end

C31_CachedPromiseIsSetWhileInProgress ==
    CallerCanRun =>
        /\ clientState = CONNECTING => connectPromise # NoPromise
        /\ clientState \in {CLOSING, CLOSED} => closePromise # NoPromise
        /\ (lastCall.fn \in {"connect", "close"} /\ lastCall.outcome = "returned") =>
              lastCall.ret # NoPromise

\* C32: a bounded pagination requests page 1, then page 2, ...: the page
\* requested is one more than the number of batches yielded; every page whose
\* response passes the checks is yielded, once; when the consumer asks for the
\* next batch the sequence ends if the pageCount of the response just yielded
\* is not above its page number, and requests the next page otherwise.
C32_BoundedPaginationFollowsTheLatestPageCount ==
    [][\A i \in DOMAIN ops : ops[i].op \in BoundedOps =>
          /\ Issues(i) => ops'[i].page = ops[i].tally[1] + 1
          /\ (ops[i].pc = "await" /\ ops'[i].pc = "yield") =>
                /\ ops'[i].page = ops[i].page
                /\ ops'[i].tally[1] = ops[i].page
          /\ (ops[i].pc = "yield" /\ ops'[i] # ops[i] /\ ~ops'[i].left) =>
                IF ops[i].resN <= ops[i].page
                  THEN ops'[i].pc = "done" /\ ops'[i].tally[1] = ops[i].page
                  ELSE /\ ops'[i].pc = "await"
                       /\ ops'[i].call = "list"
                       /\ ops'[i].page = ops[i].page + 1]_vars

\* C32, witness: the first response reported three pages and the second one
\* two; the second batch has been yielded and is the last.
C32_Witness ==
    \E i \in DOMAIN ops :
        /\ ops[i].op \in BoundedOps
        /\ ops[i].pc = "yield"
        /\ ops[i].page = 2
        /\ ops[i].pageCount = 3
        /\ ops[i].resN = 2
        /\ ops[i].tally[1] = 2

\* The status that is said to open the results of a job or query.
ClaimedSuccessState(op) == IF op \in ExportOps THEN "FULFILLED" ELSE "Succeeded"

\* The calls whose answer is said to carry that status.
ClaimedSuccessCalls(op) == IF op \in ExportOps THEN {"status"} ELSE {"submit", "status"}

\* C33: the first results call of a job or query is issued in the step in
\* which the success state was read (FULFILLED from a status poll for an
\* export, Succeeded from the submission or a status poll for an audit-log
\* query); every later results call follows a batch taken by the consumer; a
\* status poll is issued only after the submission or another status poll of
\* the same job, never after a results call.
C33_ResultsOnlyAfterSuccess ==
    [][\A i \in DOMAIN ops : (ops'[i].op \in JobOps /\ Issues(i)) =>
          /\ (ops'[i].call = "results" /\ ops[i].pc # "yield") =>
                /\ ops[i].pc = "await"
                /\ ops[i].call \in ClaimedSuccessCalls(ops[i].op)
                /\ ops'[i].jobState = ClaimedSuccessState(ops[i].op)
                /\ ops'[i].page = 1
          /\ (ops'[i].call = "results" /\ ops[i].pc = "yield") =>
                /\ ops[i].lastApi = "results"
                /\ ops'[i].page = ops[i].page + 1
          /\ ops'[i].call = "status" =>
                /\ ops[i].pc = "timer"
                /\ ops[i].lastApi \in {"submit", "status"}]_vars

\* C33, witness: an export job was polled twice, the second poll read
\* FULFILLED, and its second page of results is being fetched.
C33_Witness ==
    \E i \in DOMAIN ops :
        /\ ops[i].op \in ExportOps
        /\ ops[i].pc = "await"
        /\ ops[i].call = "results"
        /\ ops[i].polls = 2
        /\ ops[i].page = 2

\* C34: the first step of a getEventsFromAuditLog call with valid arguments
\* submits its first query without a wait.  When the consumer has taken the
\* last batch of a query whose reported start date is a date, and another
\* chunk is left, the operation submits at once if the program's clock reads
\* at least that start date plus AUDIT_LOG_QUERY_INTERVAL_IN_MS, and otherwise
\* starts a timer that is due at exactly that time; when the timer has fired
\* it submits.  So every such submission is issued when the program's clock
\* reads at least the start date the server reported plus the interval.
C34_WaitBeforeEveryLaterSubmission ==
    [][\A i \in DOMAIN ops :
         /\ (/\ ops[i].pc = "idle"
             /\ ops'[i].op = "getEventsFromAuditLog"
             /\ ops'[i].argsValid) =>
                ops'[i].pc = "await" /\ ops'[i].call = "submit"
         /\ (/\ ops[i].op = "getEventsFromAuditLog"
             /\ ops[i].pc = "yield"
             /\ ops[i].lastQuery \in ThrottleTimes
             /\ ops'[i].pc \in {"await", "timer"}
             /\ ops'[i].call \in {"submit", "throttle"}) =>
                IF clock.local >= ops[i].lastQuery + AUDIT_LOG_QUERY_INTERVAL_IN_MS
                  THEN ops'[i].pc = "await" /\ ops'[i].issuedAt = clock.local
                  ELSE /\ ops'[i].pc = "timer"
                       /\ ops'[i].due = ops[i].lastQuery + AUDIT_LOG_QUERY_INTERVAL_IN_MS
         /\ (/\ ops[i].op = "getEventsFromAuditLog"
             /\ ops[i].pc = "timer"
             /\ ops[i].call = "throttle"
             /\ ops'[i] # ops[i]) =>
                /\ ops'[i].pc = "await"
                /\ ops'[i].call = "submit"
                /\ clock.local >= ops[i].lastQuery + AUDIT_LOG_QUERY_INTERVAL_IN_MS
         /\ (/\ ops'[i].op = "getEventsFromAuditLog"
             /\ Issues(i)
             /\ ops'[i].call = "submit"
             /\ ops'[i].lastQuery \in ThrottleTimes) =>
                ops'[i].issuedAt >= ops'[i].lastQuery + AUDIT_LOG_QUERY_INTERVAL_IN_MS]_vars

\* C34, witness: the server's clock is behind the program's; the second query
\* is being submitted, after a timer that was due the interval after the start
\* date the server reported for the first, which is earlier than the time the
\* first was issued at.
C34_Witness ==
    \E i \in DOMAIN ops :
        /\ clock.server < clock.local
        /\ ops[i].op = "getEventsFromAuditLog"
        /\ ops[i].pc = "await"
        /\ ops[i].call = "submit"
        /\ ops[i].jobs = 1
        /\ ops[i].lastQuery \in ThrottleTimes
        /\ ops[i].due = ops[i].lastQuery + AUDIT_LOG_QUERY_INTERVAL_IN_MS
        /\ ops[i].issuedAt = ops[i].due
        /\ ops[i].lastQuery < ThrottleSkewTicks * TickMs

\* The caller of an export asked for an end later than the availability
\* timestamp the datalake has reported.
EndBeyondAvailability(o) ==
    /\ o.op \in ExportOps
    /\ o.avail \notin {NoTimestamp, InvalidDate}
    /\ o.asked[2] > o.avail

\* C35: for an export whose caller asked for an end later than the
\* availability timestamp, no submitted interval ends after that timestamp;
\* the intervals start at the start asked for, are non-empty and follow one
\* another without gap or overlap; and when the operation has completed, its
\* consumer having taken every batch, the last one ends at the availability
\* timestamp.
C35_EndIsClampedToTheAvailability ==
    \A i \in DOMAIN ops : EndBeyondAvailability(ops[i]) =>
        LET iv == ops[i].intervals IN
        /\ \A k \in DOMAIN iv : iv[k][1] < iv[k][2] /\ iv[k][2] <= ops[i].avail
        /\ iv # <<>> => iv[1][1] = ops[i].asked[1]
        /\ \A k \in 1..(Len(iv) - 1) : iv[k + 1][1] = iv[k][2]
        /\ (ops[i].pc = "done" /\ ~ops[i].left) =>
              (iv # <<>> /\ iv[Len(iv)][2] = ops[i].avail)

\* C35, witness: an export asked for an end beyond the availability timestamp
\* has completed with two jobs, the second one ending at that timestamp.
C35_Witness ==
    \E i \in DOMAIN ops :
        /\ EndBeyondAvailability(ops[i])
        /\ ops[i].pc = "done"
        /\ ~ops[i].left
        /\ Len(ops[i].intervals) = 2
        /\ ops[i].intervals[2][2] = ops[i].avail

-----------------------------------------------------------------------------
(* C36.  The checks of a response run in a fixed order.                    *)

\* The checks of a response in the order claimed: the body, then for each
\* field in turn its presence (when it is required) and its type.
ClaimedChecks(r, fields) ==
    [k \in 1..(1 + 2 * Len(fields)) |->
       IF k = 1 THEN (IF r.body THEN NoError ELSE Incomplete("body", "missing"))
       ELSE LET i == k \div 2
            IN  IF k % 2 = 0
                  THEN (IF fields[i].required /\ ClassOf(r, i) = "missing"
                          THEN Incomplete(fields[i].name, "missing") ELSE NoError)
                  ELSE (IF ClassOf(r, i) = "badType"
                          THEN Incomplete(fields[i].name, "badType") ELSE NoError)]

ClaimedFirstFailedCheck(r, fields) == FirstError(ClaimedChecks(r, fields))

\* C36: when a response of the collaborator fails a check, the error raised is
\* IncompleteResponse for the first failed check in the order body, then field
\* by field presence and type; the batch of that response is not yielded, the
\* batches yielded before stay counted, and the operation issues no further
\* list or results call: it throws at once, or (inside the try block of an
\* export) after the deletion call alone.
C36_FirstFailedCheckIsReported ==
    [][/\ \A i \in OpIds :
             (ops[i].pc = "await" /\ ops[i].call # "delete") =>
               \A r \in Responses(ops[i], ChecksScope) :
                  LET o == ops[i]
                      e == ClaimedFirstFailedCheck(r, FieldsOf(o.op, o.call))
                  IN  (Step(i, AfterResponse(o, r), FALSE) /\ ~r.threw /\ e # NoError) =>
                        /\ ops'[i].pc # "yield"
                        /\ ops'[i].tally = o.tally
                        /\ IF Kind(o.op) = "export" /\ o.call \in {"status", "results"}
                             THEN /\ ops'[i].pc = "await"
                                  /\ ops'[i].call = "delete"
                                  /\ ops'[i].pendErr = e
                             ELSE /\ ops'[i].pc = "threw"
                                  /\ ops'[i].err = e
       /\ \A i \in OpIds :
             (/\ ops[i].pc = "await"
              /\ ops[i].call = "delete"
              /\ ops[i].pendErr.name = "INCOMPLETE_RESPONSE"
              /\ ops'[i] # ops[i]) =>
               /\ ops'[i].pc = "threw"
               /\ ops'[i].err = ops[i].pendErr]_vars

\* C36 witness: a bounded pagination that had yielded its first page has thrown
\* IncompleteResponse for a second page whose entities were no array.
C36_Witness ==
    \E i \in OpIds :
       /\ ops[i].op \in BoundedOps
       /\ ops[i].pc = "threw"
       /\ ops[i].err = Incomplete("entities", "badType")
       /\ ops[i].tally[1] = 1

-----------------------------------------------------------------------------
(* C37.  A consumer that stops consuming.                                  *)

\* A step of an export that is polling or draining a job, taken while its
\* consumer does nothing: the consumer acts on a sequence suspended at a yield
\* only.
StepWithoutTheConsumer(i) ==
    /\ ops[i].op \in ExportOps
    /\ InTry(ops[i])
    /\ ops[i].pc # "yield"
    /\ ops'[i] # ops[i]

\* C37 as claimed: once the consumer has stopped, no deletion call is issued
\* for the job being polled or drained and no later chunk is submitted.
C37_NoCleanupWithoutTheConsumer ==
    [][\A i \in OpIds :
         StepWithoutTheConsumer(i) =>
           /\ ops'[i].deletes = ops[i].deletes
           /\ ~(ops'[i].pc = "await" /\ ops'[i].call = "submit")]_vars

\* C37: a sequence suspended at a yield moves by a step of its consumer only
\* (next() or return()); while a batch asked for is pending the operation goes
\* on by itself, never to the submission of a later chunk, and to the deletion
\* call of the job only when the poll or the results call has failed, with the
\* error it then throws.
C37_OnlyAFailureCleansUpWithoutTheConsumer ==
    [][\A i \in OpIds :
         /\ (ops[i].op \in ExportOps /\ ops[i].pc = "yield" /\ ops'[i] # ops[i]) =>
               \/ \E now \in ChunkScope.clock : opNext(i, now)
               \/ opReturn(i)
         /\ StepWithoutTheConsumer(i) =>
               /\ ~(ops'[i].pc = "await" /\ ops'[i].call = "submit")
               /\ ops'[i].jobs = ops[i].jobs
               /\ ops'[i].deletes # ops[i].deletes =>
                     /\ ops'[i].pc = "await"
                     /\ ops'[i].call = "delete"
                     /\ ops'[i].pendErr \notin {NoError, Returning}]_vars

\* C37 witness: the first job of an export has reported a failure to a poll
\* before any batch was yielded, and its deletion call has been issued.
C37_Witness ==
    \E i \in OpIds :
       /\ ops[i].op \in ExportOps
       /\ ops[i].pc = "await"
       /\ ops[i].call = "delete"
       /\ ops[i].jobs = 1
       /\ ops[i].deletes = 1
       /\ ops[i].pendErr.detail[1] = "jobStatus"

-----------------------------------------------------------------------------
(* C38.  Date-range operations finish.                                     *)

ContinueSet(op) == IF Kind(op) = "export" THEN {"QUEUED", "PENDING"} ELSE {"Queued", "Running"}

\* Whatever the number of polls so far, a status of the continue-set leads to
\* one more backoff wait: the loop has no bound of its own.
PollLoopNeverGivesUp ==
    \A i \in OpIds :
       (ops[i].pc = "await" /\ ops[i].call = "status") =>
         \A st \in ContinueSet(ops[i].op) :
            LET n == AfterResponse(ops[i], [Resp(FALSE, TRUE, "ok", "ok", "ok") EXCEPT !.s = st])
            IN  n.pc = "timer" /\ n.call = "backoff"

\* The chunks submitted so far are not empty and each starts after the one before.
ChunkStartIncreases ==
    \A i \in OpIds :
       LET s == ops[i].intervals
       IN  /\ \A k \in DOMAIN s : s[k][1] < s[k][2]
           /\ \A k \in 1..(Len(s) - 1) : s[k][1] < s[k + 1][1]

\* C38: with a consumer that keeps asking, jobs and queries that leave the
\* continue-set and results that come to a page without cursor, an export or an
\* audit-log operation that was called eventually completes or throws; the
\* start of the chunk grows with every iteration; a status of the continue-set
\* is always polled again, the loop itself gives up at no count.
C38_DateRangeOperationsFinish ==
    /\ [](ChunkStartIncreases /\ PollLoopNeverGivesUp)
    /\ \A i \in OpIds : (ops[i].pc # "idle") ~> (ops[i].pc \in {"done", "threw"})

\* C38 witness: an operation has completed after two chunks, each submitted,
\* polled, drained and finished, its consumer never having left.
C38_Witness ==
    \E i \in OpIds :
       /\ ops[i].pc = "done"
       /\ ~ops[i].left
       /\ Len(ops[i].intervals) = 2
       /\ ops[i].finished = 2

-----------------------------------------------------------------------------
(* C39.  The state of an audit-log submission response.                    *)

\* C39: an accepted audit-log submission that reports Succeeded leads to the
\* first results request at once, with no wait and no poll; one that reports
\* any other state leads to a backoff wait of 2 s, with no poll made yet and no
\* error; the wait leads to a status poll; and an error of the query state is
\* thrown on the answer of a status poll only.
C39_SubmissionStateOnlyDecidesWhetherToPoll ==
    [][\A i \in OpIds :
         /\ (ops[i].op = "getEventsFromAuditLog" /\ ops[i].pc = "await"
                /\ ops[i].call = "submit") =>
               \A r \in Responses(ops[i], PollScope) :
                  (/\ Step(i, AfterResponse(ops[i], r), FALSE)
                   /\ ResponseError(r, FieldsOf(ops[i].op, "submit")) = NoError) =>
                     IF r.s = "Succeeded"
                       THEN /\ ops'[i].pc = "await"
                            /\ ops'[i].call = "results"
                            /\ ops'[i].page = 1
                            /\ ops'[i].polls = 0
                       ELSE /\ ops'[i].pc = "timer"
                            /\ ops'[i].call = "backoff"
                            /\ ops'[i].backoff = 2
                            /\ ops'[i].polls = 0
         /\ (ops[i].op = "getEventsFromAuditLog" /\ ops[i].pc = "timer"
                /\ ops[i].call = "backoff" /\ ops'[i] # ops[i]) =>
               /\ ops'[i].pc = "await"
               /\ ops'[i].call = "status"
               /\ ops'[i].polls = ops[i].polls + 1
         /\ (ops[i].op = "getEventsFromAuditLog" /\ ops'[i].pc = "threw"
                /\ ops'[i].err.detail[1] = "jobStatus") =>
               /\ ops[i].pc = "await"
               /\ ops[i].call = "status"
               /\ ops[i].polls >= 1]_vars

\* C39 witness: a submission was answered with the state Failed, and the
\* operation waits 2 s for its first status poll.
C39_Witness ==
    \E i \in OpIds :
       /\ ops[i].op = "getEventsFromAuditLog"
       /\ ops[i].pc = "timer"
       /\ ops[i].call = "backoff"
       /\ ops[i].jobState = "Failed"
       /\ ops[i].polls = 0
       /\ ops[i].backoff = 2

-----------------------------------------------------------------------------
(* C40.  An export submission response that fails its checks.              *)

\* C40: when the response to an export submission has no body, or no jobId, or
\* a jobId that is no string, the operation throws IncompleteResponse at once:
\* no call is issued (no status poll, no results call, no deletion call), no job
\* is counted for the chunk, and an operation that has thrown takes no further
\* step, so no later chunk is submitted.
C40_FailedSubmissionThrowsWithoutCleanup ==
    [][\A i \in OpIds :
         /\ (ops[i].op \in ExportOps /\ ops[i].pc = "await" /\ ops[i].call = "submit") =>
               \A r \in Responses(ops[i], ChunkScope) :
                  (/\ Step(i, AfterResponse(ops[i], r), FALSE)
                   /\ ~r.threw
                   /\ (~r.body \/ r.f1 # "ok")) =>
                     /\ ops'[i].pc = "threw"
                     /\ ops'[i].err = (IF ~r.body THEN Incomplete("body", "missing")
                                       ELSE Incomplete("jobId", r.f1))
                     /\ ops'[i].lastApi = "none"
                     /\ ops'[i].jobs = ops[i].jobs
                     /\ ops'[i].deletes = ops[i].deletes
         /\ ops[i].pc = "threw" => ops'[i] = ops[i]]_vars

\* C40 witness: the submission of the second chunk of an export was answered
\* with a jobId that is no string; the operation has thrown, with one job
\* accepted and one deletion call issued, those of the first chunk.
C40_Witness ==
    \E i \in OpIds :
       /\ ops[i].op \in ExportOps
       /\ ops[i].pc = "threw"
       /\ ops[i].err = Incomplete("jobId", "badType")
       /\ ops[i].jobs = 1
       /\ ops[i].deletes = 1

====
